---------------------------- MODULE Spec2Model ----------------------------
(***************************************************************************)
(* Model of the agent orchestration and memory-decision engine of          *)
(* tx-sentinel: runAgent (src/agent/orchestrator.ts), the streaming        *)
(* endpoint POST /api/agent/stream, the Decision Validator                 *)
(* (src/agent/validation.ts), the Existence Checker's search tiers and the *)
(* reasoning loop (src/agent/steps/reasoning.ts).                          *)
(*                                                                         *)
(* Conventions                                                             *)
(*   - an optional value is a sequence of length 0 (absent: undefined or   *)
(*     null) or 1 (present);                                               *)
(*   - answer texts are sequences of characters (small integers);          *)
(*   - other texts are strings, of which only the class matters to the     *)
(*     code ("" empty, " " whitespace only, anything else);                *)
(*   - confidences and similarity scores are integers in tenths            *)
(*     (0.3 is 3, 0.8 is 8, 1 is 10);                                      *)
(*   - an optional list that is absent and one that is empty are both <<>> *)
(*     (the code tests `!xs || xs.length === 0` wherever it reads one).    *)
(***************************************************************************)
EXTENDS Integers, Sequences, FiniteSets, TLC

VARIABLES
    \* ---- one request to the streaming endpoint / one call of runAgent
    caller,         \* "POST" (the streaming endpoint) or "direct" (runAgent called as a library function)
    onStream,       \* whether an onStream callback was passed
    onAnswerChunk,  \* whether an onAnswerChunk callback was passed
    pc,             \* the await the run is suspended at, or "idle" / "done"
    state,          \* the AgentRunState
    statuses,       \* the values state.status has held, in order
    loc,            \* runAgent's local variables
    events,         \* the events delivered through onStream, in order
    chunksOut,      \* the chunks delivered through onAnswerChunk, in order
    invoked,        \* how many times each stage was invoked
    outcome,        \* "pending", or how runAgent's promise settled: "returned" / "rejected"
    streamClosed,   \* the consumer of onStream has gone: the callback throws
    chunkCbBroken,  \* the onAnswerChunk callback throws
    store,          \* the persistence store: the stored runs
    \* ---- the Decision Validator as a pure function
    valIn,          \* <<existenceCheck, dependencyDecision>> handed to the validator
    valOut,         \* its result, once applied (optional)
    \* ---- one invocation of the Existence Checker (checkMemoryExistence)
    exPc,           \* the await the checker is suspended at
    exQuestion,     \* the question text, as lower-case words
    exSimilar,      \* similarMemories
    exVector,       \* vectorResults
    exWord,         \* index of the keyword the per-keyword tier is searching
    exMap,          \* memoryMap of the per-keyword tier, in insertion order
    exTrace,        \* the searches made so far, in order, each with its result
    exJudged,       \* the candidates handed to the similarity judgment (optional)
    \* ---- several invocations of runAgent in flight at once
    conHeap,        \* the AgentRunState objects allocated so far
    conRef,         \* for each invocation, the object its `state` refers to (0: none yet)
    conPc,          \* for each invocation, the reasoning step it emits next (0: not started)
    conEvents,      \* for each invocation, the events its onStream received
    \* ---- the table of stored runs and the queries on it
    dbRows,         \* the rows of agent_runs
    dbNext,         \* the id (and creation time) of the next row
    dbOp,           \* the last write made: its kind, user and row id
    rsQuestion,     \* the question whose pronouns are being replaced
    rsEntities,     \* the resolvedEntities of the dependency decision
    rsResolved,     \* the resolved question built from them (optional)
    clPc,           \* where handleSubmitInternal of the client stands
    clStream,       \* the events of the response not yet read
    clSeen,         \* the types of the events read so far
    clReasoningSteps, \* the client's reasoningSteps
    clAnswer,       \* the client's answer text
    clError,        \* the client's error (optional)
    clIsStreaming,  \* the client's isStreaming
    clIsSubmitting, \* the client's isSubmitting
    auMarked,       \* sessionPasswordAuthenticated of the session's row
    auCheck,        \* the mount-time checkSessionAuth call: where it stands and its result
    auRequiresPassword, \* the panel's requiresPassword
    auIsAuthenticated, \* the panel's isAuthenticated
    auShowDialog,   \* the panel's showPasswordDialog
    auPendingQuestion, \* the panel's pendingQuestion (optional)
    auStarted,      \* for each run started, whether the session was marked then
    auTried,        \* the password of the last verifySessionPassword call (optional)
    twPc,           \* where the two submissions of one question stand
    twQuestion,     \* the question submitted twice
    twCandidates,   \* the candidates handed to the similarity judgment (optional)
    twResult        \* the existence check of the second run (optional)

runVars == <<caller, onStream, onAnswerChunk, pc, state, statuses, loc, events,
             chunksOut,
             invoked, outcome, streamClosed, chunkCbBroken, store>>

valVars == <<valIn, valOut>>

exVars == <<exPc, exQuestion, exSimilar, exVector, exWord, exMap, exTrace, exJudged>>

conVars == <<conHeap, conRef, conPc, conEvents>>

dbVars == <<dbRows, dbNext, dbOp>>

rsVars == <<rsQuestion, rsEntities, rsResolved>>

clVars == <<clPc, clStream, clSeen, clReasoningSteps, clAnswer, clError, clIsStreaming, clIsSubmitting>>

auVars == <<auMarked, auCheck, auRequiresPassword, auIsAuthenticated, auShowDialog, auPendingQuestion, auStarted, auTried>>

twVars == <<twPc, twQuestion, twCandidates, twResult>>

vars == <<runVars, valVars, exVars, conVars, dbVars, rsVars, clVars, auVars, twVars>>

-----------------------------------------------------------------------------
(* Optional values *)

None == <<>>

Some(x) == <<x>>

IsSome(o) == o # <<>>

\* JavaScript truthiness of an optional text given as a character sequence:
\* undefined, null and "" are falsy
TruthyText(o) == IsSome(o) /\ o[1] # <<>>

\* JavaScript truthiness of an optional string: undefined and "" are falsy
Undefined == "<undefined>"

TruthyStr(s) == s # Undefined /\ s # ""

\* `!s || s.trim() === ""`
BlankStr(s) == s = Undefined \/ s = "" \/ s = " "

-----------------------------------------------------------------------------
(* Decision Validator: validateMemoryDecisions *)

LowConfidence == 3

OneTenths == 10

\* the keywords of Rule 5: a reason that contains one of
\* "similar", "previous", "asked before", "existing", "reuse"
AckReasons == {"asked before, reuse existing answer"}

ReasonAcknowledges(reason) == reason \in AckReasons

RECURSIVE EntityErrors(_)
EntityErrors(es) ==
    IF es = <<>> THEN <<>>
    ELSE (IF es[1].confidence < 0 \/ es[1].confidence > OneTenths
            THEN <<"invalid_confidence">> ELSE <<>>)
         \o EntityErrors(Tail(es))

RECURSIVE EntityWarnings(_)
EntityWarnings(es) ==
    IF es = <<>> THEN <<>>
    ELSE (IF es[1].confidence < LowConfidence
            THEN <<"low_confidence">> ELSE <<>>)
         \o EntityWarnings(Tail(es))

Rule1Errors(ec) ==
    (IF BlankStr(ec.searchQuery) THEN <<"no_search_query">> ELSE <<>>)
    \o (IF BlankStr(ec.explanation) THEN <<"no_explanation">> ELSE <<>>)

Rule2Errors(ec) ==
    IF ec.similarQuestionExists
    THEN (IF ~TruthyStr(ec.existingRunId) THEN <<"no_run_id">> ELSE <<>>)
         \o (IF ~TruthyStr(ec.existingQuestion) THEN <<"no_question">> ELSE <<>>)
         \o (IF ~TruthyText(ec.existingAnswer) THEN <<"no_answer">> ELSE <<>>)
    ELSE <<>>

Rule3Errors(dd) ==
    IF BlankStr(dd.reason) THEN <<"no_reason">> ELSE <<>>

Rule4ErrorsNoMandatory(dd) ==
    IF IsSome(dd.pronounResolution)
    THEN LET pr == dd.pronounResolution[1] IN
         (IF pr.resolutionAttempted /\ BlankStr(pr.resolutionExplanation)
            THEN <<"no_resolution_explanation">> ELSE <<>>)
         \o (IF pr.resolved /\ pr.resolvedEntities = <<>>
            THEN <<"no_resolved_entities">> ELSE <<>>)
         \o EntityErrors(pr.resolvedEntities)
    ELSE <<>>

Rule4Errors(dd) ==
    IF IsSome(dd.pronounResolution)
    THEN LET pr == dd.pronounResolution[1] IN
         (IF pr.hasPronouns /\ ~pr.resolutionAttempted
            THEN <<"resolution_not_attempted">> ELSE <<>>)
         \o (IF pr.resolutionAttempted /\ BlankStr(pr.resolutionExplanation)
            THEN <<"no_resolution_explanation">> ELSE <<>>)
         \o (IF pr.resolved /\ pr.resolvedEntities = <<>>
            THEN <<"no_resolved_entities">> ELSE <<>>)
         \o EntityErrors(pr.resolvedEntities)
    ELSE <<>>

Rule4Warnings(dd) ==
    IF IsSome(dd.pronounResolution)
    THEN LET pr == dd.pronounResolution[1] IN
         (IF pr.hasPronouns /\ pr.pronounsFound = <<>>
            THEN <<"empty_pronoun_list">> ELSE <<>>)
         \o EntityWarnings(pr.resolvedEntities)
    ELSE <<>>

Rule5Warnings(ec, dd) ==
    IF ec.similarQuestionExists /\ ~dd.requiresMemory /\ ~ReasonAcknowledges(dd.reason)
    THEN <<"reason_ignores_match">> ELSE <<>>

Rule6Warnings(dd) ==
    IF /\ IsSome(dd.pronounResolution)
       /\ dd.pronounResolution[1].resolved
       /\ dd.pronounResolution[1].resolvedEntities # <<>>
       /\ ~dd.requiresMemory
    THEN <<"resolved_but_memory_not_required">> ELSE <<>>

ValidationErrors(ec, dd) ==
    Rule1Errors(ec) \o Rule2Errors(ec) \o Rule3Errors(dd) \o Rule4Errors(dd)

ValidationWarnings(ec, dd) ==
    Rule4Warnings(dd) \o Rule5Warnings(ec, dd) \o Rule6Warnings(dd)

validateMemoryDecisions(ec, dd) ==
    [ valid    |-> ValidationErrors(ec, dd) = <<>>,
      errors   |-> ValidationErrors(ec, dd),
      warnings |-> ValidationWarnings(ec, dd) ]

-----------------------------------------------------------------------------
(* The Decision Validator applied to every pair of a bounded input domain *)

A1 == <<1, 2, 3, 4, 5, 6, 7, 8, 9, 10, 11, 12>>

AX == <<7, 7, 7>>

Entity(c) == [pronoun |-> "it", resolvedTo |-> "yosemite", confidence |-> c]

ValTexts == {"", " ", "text"}

ValExistenceChecks ==
    [ similarQuestionExists : BOOLEAN,
      existingRunId         : {Undefined, "r1"},
      existingQuestion      : {Undefined, "Q"},
      existingAnswer        : {None, Some(<<>>), Some(A1)},
      searchQuery           : ValTexts,
      explanation           : {"", "text"} ]

ValPronounResolutions ==
    [ hasPronouns           : BOOLEAN,
      pronounsFound         : {<<>>, <<"it">>},
      resolutionAttempted   : BOOLEAN,
      resolved              : BOOLEAN,
      resolvedEntities      : {<<>>, <<Entity(9)>>, <<Entity(2)>>, <<Entity(-1)>>,
                               <<Entity(9), Entity(11)>>},
      resolutionExplanation : {Undefined, " ", "text"} ]

ValDependencyDecisions ==
    [ requiresMemory    : BOOLEAN,
      reason            : {"", " ", "self-contained"} \cup AckReasons,
      pronounResolution : {None} \cup {Some(pr) : pr \in ValPronounResolutions} ]

Validate ==
    /\ valOut = None
    /\ valOut' = Some(validateMemoryDecisions(valIn[1], valIn[2]))
    /\ UNCHANGED <<valIn, runVars, exVars, conVars, dbVars, rsVars, clVars, auVars, twVars>>

-----------------------------------------------------------------------------
(* Questions and pronouns *)

\* String.prototype.toLowerCase on the words of the model
Lower(w) == IF w = "It" THEN "it" ELSE w

PersonalPronouns == {"he", "him", "his", "she", "her", "hers", "they", "them",
                     "their", "theirs", "it", "its"}

DemonstrativePronouns == {"this", "that", "these", "those"}

ImplicitNouns == {"person", "company", "project", "organization", "system",
                  "application", "product", "service", "tool", "library",
                  "framework", "same", "one"}

ReferenceWords == {"there", "here"}

\* the lower-cased matches of the four patterns in a question (a sequence of words)
PronounsFound(q) ==
    {Lower(q[i]) : i \in {j \in 1..Len(q) :
        Lower(q[j]) \in PersonalPronouns \cup DemonstrativePronouns \cup ReferenceWords}}
    \cup {"the " \o Lower(q[i + 1]) : i \in {j \in 1..(Len(q) - 1) :
        Lower(q[j]) = "the" /\ Lower(q[j + 1]) \in ImplicitNouns}}

detectPronouns(q) ==
    [ hasPronouns   |-> PronounsFound(q) # {},
      pronounsFound |-> PronounsFound(q) ]

\* question.replace(new RegExp(`\\b${pronoun}\\b`, 'gi'), resolvedTo), on words
ReplaceWord(q, pronoun, resolvedTo) ==
    [i \in 1..Len(q) |-> IF Lower(q[i]) = Lower(pronoun) THEN resolvedTo ELSE q[i]]

RECURSIVE ReplaceAll(_, _)
ReplaceAll(q, es) ==
    IF es = <<>> THEN q
    ELSE ReplaceAll(ReplaceWord(q, es[1].pronoun, es[1].resolvedTo), Tail(es))

\* lines 173-202: the resolved question, when pronoun resolution succeeded
ResolvedQuestion(q, dd) ==
    IF /\ IsSome(dd.pronounResolution)
       /\ dd.pronounResolution[1].hasPronouns
       /\ dd.pronounResolution[1].resolved
       /\ dd.pronounResolution[1].resolvedEntities # <<>>
    THEN Some(ReplaceAll(q, dd.pronounResolution[1].resolvedEntities))
    ELSE None

-----------------------------------------------------------------------------
(* The run state and the execution context of one synchronous segment of   *)
(* runAgent (the code between two awaits).  A context carries the values   *)
(* the segment has written so far and whether an exception is in flight;   *)
(* every statement is skipped once one is.                                 *)

createAgentRunState(u, q) ==
    [ userId |-> u, question |-> q, plan |-> None, memoryDecision |-> None,
      retrievedMemories |-> <<>>, reasoningSteps |-> <<>>, toolsUsed |-> <<>>,
      answer |-> None, status |-> "pending", error |-> None ]

NoLocals ==
    [ existenceCheck |-> None, dependencyDecision |-> None,
      resolvedQuestion |-> None, resolvedQuestionMemory |-> None,
      answerToReuse |-> None, i |-> 0, answerChunks |-> <<>>,
      allThoughts |-> <<>>, finalConfidence |-> 0, iteration |-> 0,
      lastResult |-> None, reasoningResult |-> None,
      parsed |-> None ]

Stages == {"planner", "existence", "dependency", "validator", "recheck",
           "retriever", "reasoning", "generator", "persist"}

Ctx == [ st |-> state, sl |-> statuses, lc |-> loc, evs |-> events, co |-> chunksOut,
         inv |-> invoked, thrown |-> None ]

Thrown(c) == IsSome(c.thrown)

Throw(c, msg) == IF Thrown(c) THEN c ELSE [c EXCEPT !.thrown = Some(msg)]

\* `state.status = s`
SetStatus(c, s) ==
    IF Thrown(c) THEN c ELSE [c EXCEPT !.st.status = s, !.sl = Append(@, s)]

\* a call of a stage: counted when the call is made
Call(c, stage) == IF Thrown(c) THEN c ELSE [c EXCEPT !.inv[stage] = @ + 1]

\* `if (onStream) onStream(ev)`: the callback throws once its consumer has gone
\* (POST's sendEvent: controller.enqueue on a cancelled stream throws)
SendStream(c, ev) ==
    IF Thrown(c) \/ ~onStream THEN c
    ELSE IF streamClosed THEN Throw(c, "stream_closed")
    ELSE [c EXCEPT !.evs = Append(@, ev)]

\* `if (onAnswerChunk) onAnswerChunk(chunk)`
SendChunk(c, chunk) ==
    IF Thrown(c) \/ ~onAnswerChunk THEN c
    ELSE IF chunkCbBroken THEN Throw(c, "chunk_callback_failed")
    ELSE [c EXCEPT !.co = Append(@, chunk)]

emitReasoningStep(c, type) ==
    IF Thrown(c) THEN c
    ELSE LET n == Len(c.st.reasoningSteps) + 1 IN
         SendStream([c EXCEPT !.st.reasoningSteps = Append(@, [step |-> n, type |-> type])],
                    [type |-> "reasoning_step", step |-> n, kind |-> type])

AnswerChunkEvent(chunk) == [type |-> "answer_chunk", chunk |-> chunk]

ErrorEvent(msg) == [type |-> "error", message |-> msg]

CompleteEvent(runId) == [type |-> "complete", runId |-> runId]

\* POST lines 136: the run is persisted (and then announced complete) only if
ShouldPersist(st) ==
    /\ st.status = "completed"
    /\ IsSome(st.plan)
    /\ IsSome(st.memoryDecision)
    /\ TruthyText(st.answer)

\* runAgent returns its state; under POST the handler goes on to persistResult
\* or straight to `finally { controller.close() }`
Return(c) ==
    IF caller = "POST" /\ ShouldPersist(c.st)
    THEN [c |-> Call(c, "persist"), pc |-> "persist", out |-> "returned"]
    ELSE [c |-> c, pc |-> "done", out |-> "returned"]

CatchResettingStatus(c) ==
    LET c1  == SetStatus([c EXCEPT !.thrown = None], "pending")
        c2  == [c1 EXCEPT !.st.error = c.thrown]
        c3  == SendStream(c2, ErrorEvent(c.thrown[1]))
    IN  IF Thrown(c3)
        THEN [c |-> c2, pc |-> "done", out |-> "rejected"]
        ELSE Return(c3)

\* the catch block of runAgent (lines 471-483).  When onStream itself throws
\* there, runAgent rejects; POST's own catch then calls sendEvent, which
\* throws again on the same closed controller, so nothing more is delivered.
Catch(c) ==
    LET c1  == SetStatus([c EXCEPT !.thrown = None], "error")
        c2  == [c1 EXCEPT !.st.error = c.thrown]
        c3  == SendStream(c2, ErrorEvent(c.thrown[1]))
    IN  IF Thrown(c3)
        THEN [c |-> c2, pc |-> "done", out |-> "rejected"]
        ELSE Return(c3)

\* the segment ends at an await (or in the catch block)
Suspend(c, at) ==
    IF Thrown(c) THEN Catch(c) ELSE [c |-> c, pc |-> at, out |-> "pending"]

\* the segment ends with `return state`
Finish(c) == IF Thrown(c) THEN Catch(c) ELSE Return(c)

Apply(r) ==
    /\ state' = r.c.st
    /\ statuses' = r.c.sl
    /\ loc' = r.c.lc
    /\ events' = r.c.evs
    /\ chunksOut' = r.c.co
    /\ invoked' = r.c.inv
    /\ pc' = r.pc
    /\ outcome' = r.out

-----------------------------------------------------------------------------
(* The synchronous segments of runAgent, in program order.  Each takes the *)
(* context at the point where an awaited call resolved and gives the       *)
(* context, the next await and the settlement of runAgent's promise.       *)

ChunkSize == 10

MaxIterations == 3

HighConfidence == 8

Min(a, b) == IF a < b THEN a ELSE b

Max(a, b) == IF a > b THEN a ELSE b

SliceWholeChunksOnly(text, i, n) ==
    IF i + n <= Len(text) THEN SubSeq(text, i + 1, i + n) ELSE <<>>

\* String.prototype.slice(i, i + n) on a character sequence, i counted from 0
Slice(text, i, n) == SubSeq(text, i + 1, Min(i + n, Len(text)))

RECURSIVE Join(_)
Join(chunks) == IF chunks = <<>> THEN <<>> ELSE chunks[1] \o Join(Tail(chunks))

RunIds(mems) == {mems[k].runId : k \in 1..Len(mems)}

\* lines 347-361: the answer to reuse, if any
AnswerToReuseResolvedFirst(ec, dd, rqm) ==
    IF /\ IsSome(rqm)
       /\ rqm[1].similarQuestionExists
       /\ TruthyText(rqm[1].existingAnswer)
    THEN rqm[1].existingAnswer
    ELSE IF ec.similarQuestionExists /\ ~dd.requiresMemory /\ TruthyText(ec.existingAnswer)
    THEN ec.existingAnswer
    ELSE None

AnswerToReuseLastMatchWins(ec, dd, rqm) ==
    IF /\ IsSome(rqm)
       /\ rqm[1].similarQuestionExists
       /\ TruthyText(rqm[1].existingAnswer)
    THEN rqm[1].existingAnswer
    ELSE AnswerToReuseResolvedFirst(ec, dd, rqm)

AnswerToReuse(ec, dd, rqm) ==
    IF ec.similarQuestionExists /\ ~dd.requiresMemory /\ TruthyText(ec.existingAnswer)
    THEN ec.existingAnswer
    ELSE IF /\ IsSome(rqm)
            /\ rqm[1].similarQuestionExists
            /\ TruthyText(rqm[1].existingAnswer)
    THEN rqm[1].existingAnswer
    ELSE None

\* lines 376-395: one turn of the loop that streams the stored answer
ReuseLoop(c) ==
    IF Thrown(c) THEN Catch(c)
    ELSE LET text == c.lc.answerToReuse[1] IN
         IF c.lc.i < Len(text)
         THEN LET chunk == Slice(text, c.lc.i, ChunkSize) IN
              Suspend(SendStream(SendChunk(c, chunk), AnswerChunkEvent(chunk)),
                      "reuse_timer")
         ELSE Finish(SetStatus(c, "completed"))

\* lines 398-425: entering the reasoning loop
EnterReasoning(c) ==
    LET c1 == SetStatus(c, "executing")
        c2 == emitReasoningStep(c1, "reasoning")
        c3 == Call(c2, "reasoning")
        c4 == IF Thrown(c3) THEN c3
              ELSE [c3 EXCEPT !.lc.allThoughts = <<>>, !.lc.finalConfidence = 0,
                              !.lc.iteration = 1]
    IN  Suspend(c4, "reason")

\* lines 339-396: STEP 5, the reuse decision
Step5(c) ==
    IF Thrown(c) THEN Catch(c)
    ELSE LET atr == AnswerToReuse(c.lc.existenceCheck[1], c.lc.dependencyDecision[1],
                                  c.lc.resolvedQuestionMemory)
         IN  IF TruthyText(atr)
             THEN LET c1 == emitReasoningStep([c EXCEPT !.lc.answerToReuse = atr],
                                              "generating_answer")
                      c2 == IF Thrown(c1) THEN c1
                            ELSE [c1 EXCEPT !.st.answer = atr, !.lc.i = 0]
                  IN  IF onAnswerChunk \/ onStream
                      THEN ReuseLoop(c2)
                      ELSE Finish(SetStatus(c2, "completed"))
             ELSE EnterReasoning(c)

\* lines 294-337 (entry): STEP 4, memory retrieval if additional context is needed
Step4(c) ==
    IF Thrown(c) THEN Catch(c)
    ELSE LET md == c.st.memoryDecision[1] IN
         IF md.shouldRetrieveMemory /\ TruthyStr(md.searchQuery)
         THEN Suspend(Call(emitReasoningStep(c, "memory_retrieval"), "retriever"),
                      "retrieve")
         ELSE Step5(c)

\* lines 92-106
SegStart(c) ==
    Suspend(Call(emitReasoningStep(SetStatus(c, "planning"), "planning"),
                 "planner"),
            "plan")

\* lines 107-126
SegPlanDone(c, plan) ==
    LET c1 == [c EXCEPT !.st.plan = Some(plan)]
        c2 == emitReasoningStep(c1, "planning")
        c3 == emitReasoningStep(c2, "memory_existence_check")
    IN  Suspend(Call(c3, "existence"), "exist")

\* lines 126-160
SegExistDone(c, ec) ==
    LET c1 == [c EXCEPT !.lc.existenceCheck = Some(ec)]
        c2 == emitReasoningStep(c1, "memory_existence_check")
        c3 == emitReasoningStep(c2, "memory_dependency_decision")
    IN  Suspend(Call(c3, "dependency"), "dep")

\* lines 172-202: the pronoun-resolution step is emitted when
EmitsPronounStep(dd) ==
    /\ IsSome(dd.pronounResolution)
    /\ dd.pronounResolution[1].hasPronouns
    /\ \/ dd.pronounResolution[1].resolved
          /\ dd.pronounResolution[1].resolvedEntities # <<>>
       \/ dd.pronounResolution[1].resolutionAttempted
          /\ ~dd.pronounResolution[1].resolved

\* line 263
NeedsRecheck(q, rq) == IsSome(rq) /\ rq[1] # q

Memory(runId, answer) == [runId |-> runId, answer |-> answer]

\* lines 162-170: validation errors are fatal
ValidationGateWarnOnly(c, ec, dd) == c

ValidationGate(c, ec, dd) ==
    IF validateMemoryDecisions(ec, dd).valid THEN c
    ELSE Throw(c, "validation_failed")

\* lines 160-292 up to the second checkMemoryExistence
SegDepDone(c, dd) ==
    LET ec == c.lc.existenceCheck[1]
        q  == c.st.question
        c1 == Call([c EXCEPT !.lc.dependencyDecision = Some(dd)], "validator")
        c2 == ValidationGate(c1, ec, dd)
        c3 == IF EmitsPronounStep(dd) THEN emitReasoningStep(c2, "pronoun_resolution")
              ELSE c2
        rq == ResolvedQuestion(q, dd)
        c4 == emitReasoningStep(c3, "memory_dependency_decision")
        md == [ existenceCheck       |-> ec,
                dependencyDecision   |-> dd,
                shouldRetrieveMemory |-> dd.requiresMemory,
                searchQuery          |-> IF dd.requiresMemory THEN ec.searchQuery
                                         ELSE Undefined ]
        c5 == IF Thrown(c4) THEN c4
              ELSE [c4 EXCEPT !.lc.resolvedQuestion = rq,
                              !.st.memoryDecision = Some(md),
                              !.st.retrievedMemories =
                                  IF ec.similarQuestionExists /\ TruthyStr(ec.existingRunId)
                                  THEN Append(@, Memory(ec.existingRunId, ec.existingAnswer))
                                  ELSE @]
    IN  IF Thrown(c5) THEN Catch(c5)
        ELSE IF NeedsRecheck(q, rq)
        THEN Suspend(Call(emitReasoningStep(c5, "memory_existence_check"), "recheck"),
                     "recheck")
        ELSE Step4(c5)

\* lines 271-292
SegRecheckDone(c, r) ==
    LET c1 == [c EXCEPT !.lc.resolvedQuestionMemory = Some(r)]
        found == r.similarQuestionExists /\ TruthyText(r.existingAnswer)
        c2 == IF found THEN emitReasoningStep(c1, "memory_existence_check") ELSE c1
        c3 == IF Thrown(c2) \/ ~found \/ ~TruthyStr(r.existingRunId) THEN c2
              ELSE [c2 EXCEPT !.st.retrievedMemories =
                                  Append(@, Memory(r.existingRunId, r.existingAnswer))]
    IN  Step4(c3)

\* lines 305-337
SegRetrieveDone(c, memories) ==
    LET existingIds == RunIds(c.st.retrievedMemories)
        newMemories == SelectSeq(memories, LAMBDA m : m.runId \notin existingIds)
        c1 == [c EXCEPT !.st.retrievedMemories = @ \o newMemories,
                        !.st.toolsUsed = Append(@, "memory_retrieval")]
    IN  Step5(emitReasoningStep(c1, "memory_retrieval"))

\* line 390 resolved: the next turn of the streaming loop
SegReuseTimer(c) == ReuseLoop([c EXCEPT !.lc.i = @ + ChunkSize])

-----------------------------------------------------------------------------
(* The reasoning loop (steps/reasoning.ts) and answer generation *)

DefaultConfidence == 5

\* the number NaN, and in the oracle's JSON a truthy value that is no number
\* and converts to none (a text such as "high"): Math.max and Math.min give
\* NaN for it, and every comparison with NaN is false
NaN == -1000

NumLess(a, b) == a # NaN /\ b # NaN /\ a < b

\* lines 103-108: what one iteration returns for the oracle's parsed JSON.
\* `parsed.confidence || 0.5` takes the default for a missing value and for 0.
IterationResult(parsed, n) ==
    [ thoughts           |-> IF parsed.thoughts = Undefined THEN "" ELSE parsed.thoughts,
      needsMoreReasoning |-> n < MaxIterations /\ parsed.needsMoreReasoning = Some(TRUE),
      confidence         |->
          LET raw == IF parsed.confidence = None \/ parsed.confidence = Some(0)
                     THEN DefaultConfidence ELSE parsed.confidence[1]
          IN  IF raw = NaN THEN NaN ELSE Min(OneTenths, Max(0, raw)) ]

\* lines 147-152
ContinueReasoningConfidenceAtOne(n, result) ==
    result.needsMoreReasoning /\ NumLess(result.confidence, HighConfidence)

ContinueReasoning(n, result) ==
    IF n = 1 THEN result.needsMoreReasoning
    ELSE result.needsMoreReasoning /\ NumLess(result.confidence, HighConfidence)

\* line 134
LoopGuard(continueReasoning, iteration) ==
    continueReasoning /\ iteration <= MaxIterations

\* lines 427-450: after the loop, on to the Answer Generator
AfterReasoning(c) ==
    LET c1 == emitReasoningStep(c, "reasoning")
        c2 == emitReasoningStep(c1, "generating_answer")
    IN  Suspend(Call(c2, "generator"), "generate")

\* lines 157-161: what performReasoningLoop returns
LoopResultCountingPastTheEnd(lc) ==
    [ allThoughts     |-> lc.allThoughts,
      finalConfidence |-> lc.finalConfidence,
      iterations      |-> lc.iteration ]

LoopResult(lc) ==
    [ allThoughts     |-> lc.allThoughts,
      finalConfidence |-> lc.finalConfidence,
      iterations      |-> lc.iteration - 1 ]

\* performReasoningLoop called alone, the oracle's JSON having the fields of
\* the prompt ("loop") or any JSON value for its confidence ("loop_any")
LoopCallers == {"loop", "loop_any"}

\* lines 135-161: one iteration resolved inside performReasoningLoop
SegReasonIter(c, parsed) ==
    LET n      == c.lc.iteration
        result == IterationResult(parsed, n)
        cont   == ContinueReasoning(n, result)
        c1 == [c EXCEPT !.lc.allThoughts = Append(@, result.thoughts),
                        !.lc.finalConfidence = result.confidence,
                        !.lc.lastResult = Some(result),
                        !.lc.parsed = Some(parsed),
                        !.lc.iteration = n + 1]
    IN  IF LoopGuard(cont, n + 1)
        THEN Suspend(c1, "reason")
        ELSE LET c2 == [c1 EXCEPT !.lc.reasoningResult = Some(LoopResult(c1.lc))]
             IN  IF caller \in LoopCallers
                 THEN [c |-> c2, pc |-> "loop_returned", out |-> "returned"]
                 ELSE AfterReasoning(c2)

\* lines 452-465: one chunk of the generated answer arrives
SegGenChunk(c, chunk) ==
    LET c1 == [c EXCEPT !.lc.answerChunks = Append(@, chunk)]
    IN  Suspend(SendStream(SendChunk(c1, chunk), AnswerChunkEvent(chunk)), "gen_stream")

\* the end of the stream announced by one more reasoning step
SegGenEndAnnounced(c) ==
    Finish(SetStatus(emitReasoningStep([c EXCEPT !.st.answer = Some(Join(c.lc.answerChunks))],
                                       "generating_answer"),
                     "completed"))

\* lines 467-470: the generated stream ends
SegGenEnd(c) ==
    Finish(SetStatus([c EXCEPT !.st.answer = Some(Join(c.lc.answerChunks))],
                     "completed"))

\* an awaited call rejects: the exception reaches the catch block
SegFail(c, msg) == Catch(Throw(c, msg))

-----------------------------------------------------------------------------
(* What the environment may answer: the oracle, the store, the caller *)

A2 == <<21, 22>>

Users == {"u1", "u2"}

\* the user of the run under study; the store also holds another user's run
RunUser == "u1"

Questions == { <<"how", "big", "is", "It">>, <<"what", "is", "yosemite">> }

Run(id, u, q, a) == [id |-> id, userId |-> u, question |-> q, answer |-> a]

InitialStore == { Run("r1", "u1", <<"what", "is", "yosemite">>, A1),
                  Run("r2", "u2", <<"how", "big", "is", "yosemite">>, A2) }

StoredAnswers(u) == {r.answer : r \in {x \in store : x.userId = u}}

Callers ==
    { [caller |-> "POST",   onStream |-> TRUE,  onAnswerChunk |-> FALSE],
      [caller |-> "direct", onStream |-> TRUE,  onAnswerChunk |-> TRUE],
      [caller |-> "direct", onStream |-> FALSE, onAnswerChunk |-> TRUE],
      [caller |-> "direct", onStream |-> FALSE, onAnswerChunk |-> FALSE] }

\* the plan's requiresMemory hint only reaches the dependency oracle's prompt
Plans == {[requiresMemory |-> TRUE]}

EC(similar, runId, q, answer, searchQuery) ==
    [ similarQuestionExists |-> similar, existingRunId |-> runId,
      existingQuestion |-> q, existingAnswer |-> answer,
      searchQuery |-> searchQuery, explanation |-> "text",
      vectorSimilarityScore |-> None ]

\* the judgment also reports the highest similarity of a vector search, in
\* hundredths (part_012 line 189)
Scored(ec, score) == [ec EXCEPT !.vectorSimilarityScore = Some(score)]

\* the similarity judgment is free text from the oracle: it may echo a stored
\* run (A1), alter the answer (AX), leave fields out, or contradict itself
ExistenceOutputs ==
    { EC(FALSE, Undefined, Undefined, None, "sq"),
      EC(FALSE, Undefined, Undefined, None, ""),
      EC(FALSE, "r1", "Q", Some(A1), "sq"),
      EC(TRUE, "r1", "Q", Some(A1), "sq"),
      EC(TRUE, "r1", "Q", Some(AX), "sq"),
      EC(TRUE, "r1", "Q", Some(<<>>), "sq"),
      EC(TRUE, "r1", "Q", None, "sq"),
      EC(TRUE, Undefined, "Q", Some(A1), "sq"),
      Scored(EC(TRUE, "r1", "Q", Some(A1), "sq"), 90) }

PronounResolutions ==
    [ hasPronouns           : BOOLEAN,
      pronounsFound         : {<<"it">>},
      resolutionAttempted   : BOOLEAN,
      resolved              : BOOLEAN,
      resolvedEntities      : {<<>>, <<Entity(9)>>},
      resolutionExplanation : {"text"} ]

DependencyOutputs ==
    [ requiresMemory    : BOOLEAN,
      reason            : {"self-contained"},
      pronounResolution : {None} \cup {Some(pr) : pr \in PronounResolutions} ]
    \cup { [requiresMemory |-> FALSE, reason |-> "", pronounResolution |-> None] }

RetrieveOutputs(u) ==
    {<<>>} \cup {<<Memory(r.id, Some(r.answer))>> : r \in {x \in store : x.userId = u}}

ReasoningOutputs ==
    IF caller \in LoopCallers
    THEN [ thoughts           : {Undefined, "t", "u"},
           needsMoreReasoning : {None, Some(TRUE), Some(FALSE)},
           confidence         : {None, Some(-3), Some(0), Some(5), Some(7), Some(8),
                                 Some(10), Some(14)}
                                \cup (IF caller = "loop_any" THEN {Some(NaN)} ELSE {}) ]
    ELSE [ thoughts           : {"t"},
           needsMoreReasoning : {Some(TRUE), Some(FALSE)},
           confidence         : {Some(5), Some(9)} ]

GenChunks == {<<31, 32>>}

MaxChunks == 2

-----------------------------------------------------------------------------
(* Actions of a run *)

envVars == <<caller, onStream, onAnswerChunk, streamClosed, chunkCbBroken, store>>

Awaits == {"plan", "exist", "dep", "recheck", "retrieve", "reuse_timer", "reason",
           "generate", "gen_stream", "persist"}

\* the awaited calls that may reject (an oracle, embedding or store failure, a
\* response that does not parse); the timer of the reuse loop cannot
FailingAwaits == {"plan", "exist", "dep", "recheck", "retrieve", "reason",
                  "generate", "gen_stream"}

StartRun ==
    /\ pc = "idle"
    /\ Apply(SegStart(Ctx))
    /\ UNCHANGED <<envVars, valVars, exVars, conVars, dbVars, rsVars, clVars, auVars, twVars>>

PlanDone ==
    /\ pc = "plan"
    /\ \E plan \in Plans : Apply(SegPlanDone(Ctx, plan))
    /\ UNCHANGED <<envVars, valVars, exVars, conVars, dbVars, rsVars, clVars, auVars, twVars>>

ExistDone ==
    /\ pc = "exist"
    /\ \E ec \in ExistenceOutputs : Apply(SegExistDone(Ctx, ec))
    /\ UNCHANGED <<envVars, valVars, exVars, conVars, dbVars, rsVars, clVars, auVars, twVars>>

DepDone ==
    /\ pc = "dep"
    /\ \E dd \in DependencyOutputs : Apply(SegDepDone(Ctx, dd))
    /\ UNCHANGED <<envVars, valVars, exVars, conVars, dbVars, rsVars, clVars, auVars, twVars>>

RecheckDone ==
    /\ pc = "recheck"
    /\ \E r \in ExistenceOutputs : Apply(SegRecheckDone(Ctx, r))
    /\ UNCHANGED <<envVars, valVars, exVars, conVars, dbVars, rsVars, clVars, auVars, twVars>>

RetrieveDone ==
    /\ pc = "retrieve"
    /\ \E ms \in RetrieveOutputs(state.userId) : Apply(SegRetrieveDone(Ctx, ms))
    /\ UNCHANGED <<envVars, valVars, exVars, conVars, dbVars, rsVars, clVars, auVars, twVars>>

ReuseTimer ==
    /\ pc = "reuse_timer"
    /\ Apply(SegReuseTimer(Ctx))
    /\ UNCHANGED <<envVars, valVars, exVars, conVars, dbVars, rsVars, clVars, auVars, twVars>>

ReasonIterDone ==
    /\ pc = "reason"
    /\ \E parsed \in ReasoningOutputs : Apply(SegReasonIter(Ctx, parsed))
    /\ UNCHANGED <<envVars, valVars, exVars, conVars, dbVars, rsVars, clVars, auVars, twVars>>

GenerateOpened ==
    /\ pc = "generate"
    /\ Apply(Suspend(Ctx, "gen_stream"))
    /\ UNCHANGED <<envVars, valVars, exVars, conVars, dbVars, rsVars, clVars, auVars, twVars>>

GenChunk ==
    /\ pc = "gen_stream"
    /\ Len(loc.answerChunks) < MaxChunks
    /\ \E chunk \in GenChunks : Apply(SegGenChunk(Ctx, chunk))
    /\ UNCHANGED <<envVars, valVars, exVars, conVars, dbVars, rsVars, clVars, auVars, twVars>>

GenEnd ==
    /\ pc = "gen_stream"
    /\ Apply(SegGenEnd(Ctx))
    /\ UNCHANGED <<envVars, valVars, exVars, conVars, dbVars, rsVars, clVars, auVars, twVars>>

StageFails ==
    /\ pc \in FailingAwaits
    /\ caller \notin LoopCallers
    /\ Apply(SegFail(Ctx, pc))
    /\ UNCHANGED <<envVars, valVars, exVars, conVars, dbVars, rsVars, clVars, auVars, twVars>>

\* a tool that inserts the run and a copy of it
InsertedRunsWithCopy(st) ==
    { Run("new", st.userId, st.question, st.answer[1]),
      Run("copy", st.userId, st.question, st.answer[1]) }

\* resultPersistenceTool lines 27-36: the one row insertAgentRun adds
InsertedRuns(st) == { Run("new", st.userId, st.question, st.answer[1]) }

\* POST lines 137-164: persistResult resolved or rejected
PersistDone ==
    /\ pc = "persist"
    /\ \E ok \in BOOLEAN :
        /\ store' = IF ok THEN store \cup InsertedRuns(state) ELSE store
        /\ events' = IF streamClosed THEN events
                     ELSE IF ok THEN Append(events, CompleteEvent("new"))
                     ELSE Append(events, ErrorEvent("persist_failed"))
    /\ pc' = "done"
    /\ UNCHANGED <<caller, onStream, onAnswerChunk, streamClosed, chunkCbBroken,
                   state, statuses, loc, chunksOut, invoked, outcome, valVars, exVars, conVars, dbVars, rsVars, clVars, auVars, twVars>>

\* the client goes away: the stream is cancelled and enqueue throws from now on
ClientCancel ==
    /\ onStream
    /\ ~streamClosed
    /\ pc \in Awaits
    /\ streamClosed' = TRUE
    /\ UNCHANGED <<caller, onStream, onAnswerChunk, chunkCbBroken, store, pc, state,
                   statuses, loc, events, chunksOut, invoked, outcome, valVars, exVars, conVars, dbVars, rsVars, clVars, auVars, twVars>>

\* the consumer behind onAnswerChunk starts to throw
ChunkCallbackBreaks ==
    /\ onAnswerChunk
    /\ ~chunkCbBroken
    /\ pc \in {"dep", "recheck", "retrieve", "reuse_timer", "generate", "gen_stream"}
    /\ chunkCbBroken' = TRUE
    /\ UNCHANGED <<caller, onStream, onAnswerChunk, streamClosed, store, pc, state,
                   statuses, loc, events, chunksOut, invoked, outcome, valVars, exVars, conVars, dbVars, rsVars, clVars, auVars, twVars>>

DefaultValIn ==
    << EC(FALSE, Undefined, Undefined, None, "sq"),
       [requiresMemory |-> FALSE, reason |-> "self-contained", pronounResolution |-> None] >>

ValParked == valIn = DefaultValIn /\ valOut = None

ConParked ==
    /\ conHeap = <<>>
    /\ conRef = <<>>
    /\ conPc = <<>>
    /\ conEvents = <<>>

NoWrite == [kind |-> "none", userId |-> "", id |-> 0]

RsParked ==
    /\ rsQuestion = <<>>
    /\ rsEntities = <<>>
    /\ rsResolved = None

ClParked ==
    /\ clPc = "parked"
    /\ clStream = <<>>
    /\ clSeen = <<>>
    /\ clReasoningSteps = <<>>
    /\ clAnswer = <<>>
    /\ clError = None
    /\ clIsStreaming = FALSE
    /\ clIsSubmitting = FALSE

AuParked ==
    /\ auMarked = FALSE
    /\ auCheck = [at |-> "parked", result |-> None]
    /\ auRequiresPassword = FALSE
    /\ auIsAuthenticated = TRUE
    /\ auShowDialog = FALSE
    /\ auPendingQuestion = None
    /\ auStarted = <<>>
    /\ auTried = None

TwParked ==
    /\ twPc = "parked"
    /\ twQuestion = <<>>
    /\ twCandidates = None
    /\ twResult = None

DbParked ==
    /\ dbRows = {}
    /\ dbNext = 1
    /\ dbOp = NoWrite

ExParked ==
    /\ exPc = "parked"
    /\ exQuestion = <<>>
    /\ exSimilar = <<>>
    /\ exVector = <<>>
    /\ exWord = 0
    /\ exMap = <<>>
    /\ exTrace = <<>>
    /\ exJudged = None

Init ==
    /\ \E k \in Callers :
        /\ caller = k.caller
        /\ onStream = k.onStream
        /\ onAnswerChunk = k.onAnswerChunk
    /\ \E q \in Questions : state = createAgentRunState(RunUser, q)
    /\ pc = "idle"
    /\ statuses = <<"pending">>
    /\ loc = NoLocals
    /\ events = <<>>
    /\ chunksOut = <<>>
    /\ invoked = [s \in Stages |-> 0]
    /\ outcome = "pending"
    /\ streamClosed = FALSE
    /\ chunkCbBroken = FALSE
    /\ store = InitialStore
    /\ ValParked
    /\ ExParked
    /\ ConParked
    /\ DbParked
    /\ TwParked
    /\ AuParked
    /\ ClParked
    /\ RsParked

Next ==
    \/ StartRun
    \/ PlanDone
    \/ ExistDone
    \/ DepDone
    \/ RecheckDone
    \/ RetrieveDone
    \/ ReuseTimer
    \/ ReasonIterDone
    \/ GenerateOpened
    \/ GenChunk
    \/ GenEnd
    \/ StageFails
    \/ PersistDone
    \/ ClientCancel
    \/ ChunkCallbackBreaks

Spec == Init /\ [][Next]_vars

-----------------------------------------------------------------------------
(* Specifications of the parts taken alone *)

RunParked ==
    /\ caller = "none"
    /\ onStream = FALSE
    /\ onAnswerChunk = FALSE
    /\ pc = "parked"
    /\ state = createAgentRunState(RunUser, <<>>)
    /\ statuses = <<"pending">>
    /\ loc = NoLocals
    /\ events = <<>>
    /\ chunksOut = <<>>
    /\ invoked = [s \in Stages |-> 0]
    /\ outcome = "pending"
    /\ streamClosed = FALSE
    /\ chunkCbBroken = FALSE
    /\ store = InitialStore

ValInit ==
    /\ RunParked
    /\ ExParked
    /\ ConParked
    /\ DbParked
    /\ TwParked
    /\ AuParked
    /\ ClParked
    /\ RsParked
    /\ valIn \in ValExistenceChecks \X ValDependencyDecisions
    /\ valOut = None

SpecValidate == ValInit /\ [][Validate]_vars

\* performReasoningLoop called alone: lines 129-134 of steps/reasoning.ts
LoopStart ==
    /\ onStream = FALSE
    /\ onAnswerChunk = FALSE
    /\ pc = "reason"
    /\ state = createAgentRunState(RunUser, <<"what", "is", "yosemite">>)
    /\ statuses = <<"pending">>
    /\ loc = [NoLocals EXCEPT !.iteration = 1]
    /\ events = <<>>
    /\ chunksOut = <<>>
    /\ invoked = [s \in Stages |-> 0]
    /\ outcome = "pending"
    /\ streamClosed = FALSE
    /\ chunkCbBroken = FALSE
    /\ store = InitialStore
    /\ ValParked
    /\ ExParked
    /\ ConParked
    /\ DbParked
    /\ TwParked
    /\ AuParked
    /\ ClParked
    /\ RsParked

InitLoop == caller = "loop" /\ LoopStart

InitLoopAny == caller = "loop_any" /\ LoopStart

\* performReasoningIteration rejects (no content, JSON.parse): nothing in the
\* loop catches it, so performReasoningLoop rejects
LoopFails ==
    /\ caller \in LoopCallers
    /\ pc = "reason"
    /\ pc' = "loop_thrown"
    /\ outcome' = "rejected"
    /\ UNCHANGED <<caller, onStream, onAnswerChunk, streamClosed, chunkCbBroken, store,
                   state, statuses, loc, events, chunksOut, invoked, valVars, exVars, conVars, dbVars, rsVars, clVars, auVars, twVars>>

NextLoop ==
    \/ ReasonIterDone
    \/ LoopFails

\* every awaited oracle call settles: it resolves or it rejects
SpecLoop == InitLoop /\ [][NextLoop]_vars /\ WF_vars(NextLoop)

SpecLoopAny == InitLoopAny /\ [][NextLoop]_vars /\ WF_vars(NextLoop)

-----------------------------------------------------------------------------
(* The Existence Checker's search tiers (checkMemoryExistence, lines 23-152) *)

VectorLimit == 5

PhraseLimit == 3

KeywordLimit == 5

MergedCap == 5

MaxStored == 2

\* the user's stored runs the searches can return; createdAt grows with the index
ExRuns == {[runId |-> k, createdAt |-> k] : k \in 1..MaxStored}

ExQuestions == { <<"who", "is", "he">>,
                 <<"who", "is", "tim", "cook">>,
                 <<"who", "invented", "python">> }

WordLength(w) ==
    CASE w = "is" -> 2  [] w = "he" -> 2  [] w = "who" -> 3  [] w = "tim" -> 3
      [] w = "cook" -> 4  [] w = "python" -> 6  [] w = "invented" -> 8

StopWords == {"the", "a", "an", "is", "was", "were", "are", "has", "have", "had",
              "where", "what", "when", "who", "how", "why", "he", "she", "it",
              "they", "him", "her", "his", "their"}

KeywordStopWords == StopWords \cup {"does", "did", "will", "would", "could", "should",
                                    "with", "from", "this", "that", "these", "those"}

\* lines 87-94
StrippedWords(q) ==
    SelectSeq(q, LAMBDA w : WordLength(w) > 2 /\ w \notin StopWords)

\* lines 110-117
Keywords(q) ==
    SelectSeq(q, LAMBDA w : WordLength(w) > 3 /\ w \notin KeywordStopWords)

SeqRange(xs) == {xs[k] : k \in 1..Len(xs)}

IsInjective(xs) == \A a, b \in 1..Len(xs) : a # b => xs[a] # xs[b]

NewestFirst(xs) ==
    \A a, b \in 1..Len(xs) : a < b => xs[a].createdAt >= xs[b].createdAt

\* what a search of the store can return: distinct runs of the user, no more
\* than the limit; searchMemory orders by createdAt descending, searchByVector
\* by distance
Lists(limit) ==
    {xs \in UNION {[1..n -> ExRuns] : n \in 0..Min(limit, MaxStored)} : IsInjective(xs)}

TextResults(limit) == {xs \in Lists(limit) : NewestFirst(xs)}

VectorResults == Lists(VectorLimit)

\* lines 127-132: results not yet in the map are added at its end
RECURSIVE MergeInto(_, _)
MergeInto(map, results) ==
    IF results = <<>> THEN map
    ELSE MergeInto(IF results[1] \in SeqRange(map) THEN map ELSE Append(map, results[1]),
                   Tail(results))

\* lines 136-138: the map sorted by createdAt descending, cut to 5
RECURSIVE SortNewestFirst(_)
SortNewestFirst(set) ==
    IF set = {} THEN <<>>
    ELSE LET newest == CHOOSE x \in set : \A y \in set : y.createdAt <= x.createdAt
         IN  <<newest>> \o SortNewestFirst(set \ {newest})

Merged(map) == SubSeq(SortNewestFirst(SeqRange(map)), 1, Min(MergedCap, Len(map)))

\* the tier that runs after tier `from` left similarMemories at `sim`:
\* each `if (similarMemories.length === 0)` of lines 75-149
AfterVectorAlwaysPhrase(sim, q) == "phrase"

AfterVector(sim, q) == IF sim # <<>> THEN "judge" ELSE "phrase"

AfterKeywords(sim, q) == IF sim # <<>> THEN "judge" ELSE "verbatim"

AfterStripped(sim, q) ==
    IF sim # <<>> THEN "judge"
    ELSE IF Keywords(q) # <<>> THEN "keyword"
    ELSE AfterKeywords(sim, q)

AfterPhrase(sim, q) ==
    IF sim # <<>> THEN "judge"
    ELSE IF StrippedWords(q) # <<>> THEN "stripped"
    ELSE AfterStripped(sim, q)

ExGoto(at, sim) ==
    /\ exPc' = at
    /\ exSimilar' = sim
    /\ exJudged' = IF at = "judge" THEN Some(sim) ELSE None

ExSearched(tier, result) == exTrace' = Append(exTrace, [tier |-> tier, result |-> result])

\* lines 24-53: the search phrase is generated
ExQueryDone ==
    /\ exPc = "gen_query"
    /\ exPc' = "vector"
    /\ UNCHANGED <<exQuestion, exSimilar, exVector, exWord, exMap, exTrace, exJudged,
                   runVars, valVars, conVars, dbVars, rsVars, clVars, auVars, twVars>>

\* lines 60-72
ExVectorDone ==
    /\ exPc = "vector"
    /\ \E r \in VectorResults :
        /\ exVector' = r
        /\ ExSearched("vector", r)
        /\ ExGoto(AfterVector(r, exQuestion), r)
    /\ UNCHANGED <<exQuestion, exWord, exMap, runVars, valVars, conVars, dbVars, rsVars, clVars, auVars, twVars>>

\* lines 75-81
ExPhraseDone ==
    /\ exPc = "phrase"
    /\ \E r \in TextResults(PhraseLimit) :
        /\ ExSearched("phrase", r)
        /\ ExGoto(AfterPhrase(r, exQuestion), r)
    /\ UNCHANGED <<exQuestion, exVector, exWord, exMap, runVars, valVars, conVars, dbVars, rsVars, clVars, auVars, twVars>>

\* lines 85-104
ExStrippedDone ==
    /\ exPc = "stripped"
    /\ \E r \in TextResults(PhraseLimit) :
        /\ ExSearched("stripped", r)
        /\ ExGoto(AfterStripped(r, exQuestion), r)
    /\ UNCHANGED <<exQuestion, exVector, exWord, exMap, runVars, valVars, conVars, dbVars, rsVars, clVars, auVars, twVars>>

\* lines 109-140: one keyword searched; after the last one the map is merged
ExKeywordDone ==
    /\ exPc = "keyword"
    /\ \E r \in TextResults(KeywordLimit) :
        LET map == MergeInto(exMap, r) IN
        /\ ExSearched("keyword", r)
        /\ exMap' = map
        /\ IF exWord + 1 < Len(Keywords(exQuestion))
           THEN /\ exWord' = exWord + 1
                /\ ExGoto("keyword", exSimilar)
           ELSE /\ exWord' = exWord + 1
                /\ ExGoto(AfterKeywords(Merged(map), exQuestion), Merged(map))
    /\ UNCHANGED <<exQuestion, exVector, runVars, valVars, conVars, dbVars, rsVars, clVars, auVars, twVars>>

\* lines 143-149
ExVerbatimDone ==
    /\ exPc = "verbatim"
    /\ \E r \in TextResults(PhraseLimit) :
        /\ ExSearched("verbatim", r)
        /\ ExGoto("judge", r)
    /\ UNCHANGED <<exQuestion, exVector, exWord, exMap, runVars, valVars, conVars, dbVars, rsVars, clVars, auVars, twVars>>

\* lines 155-220: the similarity judgment answered and parsed
ExJudgeDone ==
    /\ exPc = "judge"
    /\ exPc' = "returned"
    /\ UNCHANGED <<exQuestion, exSimilar, exVector, exWord, exMap, exTrace, exJudged,
                   runVars, valVars, conVars, dbVars, rsVars, clVars, auVars, twVars>>

\* an oracle, embedding or store call of the checker rejects
ExFails ==
    /\ exPc \in {"gen_query", "vector", "phrase", "stripped", "keyword", "verbatim",
                 "judge"}
    /\ exPc' = "thrown"
    /\ UNCHANGED <<exQuestion, exSimilar, exVector, exWord, exMap, exTrace, exJudged,
                   runVars, valVars, conVars, dbVars, rsVars, clVars, auVars, twVars>>

ExInit ==
    /\ RunParked
    /\ ValParked
    /\ ConParked
    /\ DbParked
    /\ TwParked
    /\ AuParked
    /\ ClParked
    /\ RsParked
    /\ exPc = "gen_query"
    /\ exQuestion \in ExQuestions
    /\ exSimilar = <<>>
    /\ exVector = <<>>
    /\ exWord = 0
    /\ exMap = <<>>
    /\ exTrace = <<>>
    /\ exJudged = None

ExNext ==
    \/ ExQueryDone
    \/ ExVectorDone
    \/ ExPhraseDone
    \/ ExStrippedDone
    \/ ExKeywordDone
    \/ ExVerbatimDone
    \/ ExJudgeDone
    \/ ExFails

SpecExist == ExInit /\ [][ExNext]_vars

-----------------------------------------------------------------------------
(* Properties of a run (specification Spec) *)

\* the condition of the original-question reuse, on the decisions of the run
ReuseConditions ==
    /\ IsSome(loc.existenceCheck)
    /\ IsSome(loc.dependencyDecision)
    /\ loc.existenceCheck[1].similarQuestionExists
    /\ ~loc.dependencyDecision[1].requiresMemory
    /\ TruthyText(loc.existenceCheck[1].existingAnswer)

\* C1: in a run that does not end in error, when a similar question exists,
\* memory is not required and the existing answer is non-empty, neither the
\* reasoning loop nor the Answer Generator is invoked, and the state that
\* runAgent returns carries exactly existenceCheck.existingAnswer as its answer.
C1_ReuseCorrectness ==
    (ReuseConditions /\ state.status # "error") =>
        /\ invoked["reasoning"] = 0
        /\ invoked["generator"] = 0
        /\ (outcome = "returned" => state.answer = loc.existenceCheck[1].existingAnswer)

\* a run returned completed by the original match although the resolved
\* question matched another answer as well
C1_Witness ==
    /\ ReuseConditions
    /\ outcome = "returned"
    /\ state.status = "completed"
    /\ state.answer = Some(A1)
    /\ IsSome(loc.resolvedQuestionMemory)
    /\ loc.resolvedQuestionMemory[1].existingAnswer = Some(AX)
    /\ Len(chunksOut) = 2

\* the answers the store held for the user of the run before the run began
PriorAnswers == {r.answer : r \in {x \in InitialStore : x.userId = state.userId}}

\* C2: whenever the reuse short-circuit fires, the final answer is, character
\* for character, the answer the store holds for a prior run of the same user.
C2_ReusedAnswerIsStored ==
    (TruthyText(loc.answerToReuse) /\ state.status = "completed") =>
        /\ IsSome(state.answer)
        /\ state.answer[1] \in PriorAnswers

HasEvent(type) == \E k \in 1..Len(events) : events[k].type = type

CountEvents(type) == Cardinality({k \in 1..Len(events) : events[k].type = type})

\* C3: on the stream of the endpoint, a run that returned with status
\* completed is followed by a complete event (here: when the client stayed
\* connected and nothing failed after the run), and no complete event is
\* emitted for a run that did not reach completed.
C3_CompleteIffCompleted ==
    /\ HasEvent("complete") => state.status = "completed"
    /\ ( /\ caller = "POST"
         /\ pc = "done"
         /\ outcome = "returned"
         /\ state.status = "completed"
         /\ ~streamClosed
         /\ ~HasEvent("error") ) => HasEvent("complete")

\* the failures of a stage: a rejected await or the validator's hard error
StageFailures == FailingAwaits \cup {"validation_failed"}

StageFailed == IsSome(state.error) /\ state.error[1] \in StageFailures

\* C4: when a stage of a run fails and a listener was given, the status
\* becomes error, exactly one error event is emitted and runAgent returns the
\* partial state; no stage is invoked after the failure.
C4_StageFailureHandled ==
    (StageFailed /\ onStream /\ pc = "done") =>
        /\ state.status = "error"
        /\ CountEvents("error") = 1
        /\ outcome = "returned"

\* C5: a state that runAgent returns with status error has no answer.
C5_ErrorHasNoAnswer ==
    (outcome = "returned" /\ state.status = "error") => state.answer = None

ValidatorRejected ==
    /\ IsSome(loc.dependencyDecision)
    /\ ~validateMemoryDecisions(loc.existenceCheck[1], loc.dependencyDecision[1]).valid

\* C6: when the Decision Validator reports a hard error for the pair of a run,
\* the run ends in status error and the resolved-question re-check, the Memory
\* Retriever, the reasoning loop and the Answer Generator are never invoked.
C6_ValidatorErrorIsFatal ==
    ValidatorRejected =>
        /\ state.status = "error"
        /\ pc = "done"
        /\ invoked["recheck"] = 0
        /\ invoked["retriever"] = 0
        /\ invoked["reasoning"] = 0
        /\ invoked["generator"] = 0

\* a rejected pair whose decisions would otherwise have led to the re-check
C6_Witness ==
    /\ ValidatorRejected
    /\ invoked["validator"] = 1
    /\ outcome = "returned"
    /\ state.error = Some("validation_failed")
    /\ loc.existenceCheck[1].similarQuestionExists
    /\ NeedsRecheck(state.question,
                    ResolvedQuestion(state.question, loc.dependencyDecision[1]))

ResolutionNotAttempted(dd) ==
    \/ dd.pronounResolution = None
    \/ ~dd.pronounResolution[1].resolutionAttempted

\* C7: for a question on which detectPronouns reports hasPronouns, a
\* dependency decision whose pronoun resolution was not attempted is rejected
\* by the Validator, so the run aborts.
C7_MandatoryResolution ==
    ( /\ IsSome(loc.dependencyDecision)
      /\ detectPronouns(state.question).hasPronouns
      /\ ResolutionNotAttempted(loc.dependencyDecision[1]) ) => state.status = "error"

-----------------------------------------------------------------------------
(* Properties of the Decision Validator (specification SpecValidate) *)

ConfidenceOutOfRange(es) ==
    \E k \in 1..Len(es) : es[k].confidence < 0 \/ es[k].confidence > 10

\* the hard-error conditions, where a text is empty when nothing but white
\* space is in it and a missing field is empty as well
HardErrorCondition(ec, dd) ==
    \/ ec.searchQuery \in {"", " "}
    \/ ec.explanation \in {"", " "}
    \/ ec.similarQuestionExists /\ ec.existingRunId \in {Undefined, ""}
    \/ ec.similarQuestionExists /\ ec.existingQuestion \in {Undefined, ""}
    \/ ec.similarQuestionExists /\ ec.existingAnswer \in {None, Some(<<>>)}
    \/ dd.reason \in {"", " "}
    \/ \E pr \in {dd.pronounResolution[k] : k \in 1..Len(dd.pronounResolution)} :
          \/ pr.hasPronouns /\ ~pr.resolutionAttempted
          \/ pr.resolutionAttempted /\ pr.resolutionExplanation \in {Undefined, "", " "}
          \/ pr.resolved /\ Len(pr.resolvedEntities) = 0
          \/ ConfidenceOutOfRange(pr.resolvedEntities)

\* C8: validateMemoryDecisions returns valid = false if and only if at least
\* one hard-error condition holds; warnings never make valid false; the pair
\* handed to the function is left as it was.
C8_ValidIffNoHardError ==
    /\ [](IsSome(valOut) =>
            (valOut[1].valid = FALSE <=> HardErrorCondition(valIn[1], valIn[2])))
    /\ [][valIn' = valIn]_vars

\* a pair with the three kinds of warning and no hard error
C8_Witness ==
    /\ IsSome(valOut)
    /\ valOut[1].valid
    /\ valOut[1].errors = <<>>
    /\ \A w \in {"low_confidence", "reason_ignores_match",
                 "resolved_but_memory_not_required"} :
          \E k \in 1..Len(valOut[1].warnings) : valOut[1].warnings[k] = w

-----------------------------------------------------------------------------
(* Properties of the Existence Checker (specification SpecExist) *)

TierRank(tier) ==
    CASE tier = "vector" -> 1  [] tier = "phrase" -> 2  [] tier = "stripped" -> 3
      [] tier = "keyword" -> 4  [] tier = "verbatim" -> 5

\* the runs tier `tier` returned, over all its searches so far
TierReturned(tier) ==
    UNION {SeqRange(exTrace[k].result) :
              k \in {j \in 1..Len(exTrace) : exTrace[j].tier = tier}}

TiersTried == {exTrace[k].tier : k \in 1..Len(exTrace)}

FirstNonEmptyTiers ==
    {t \in TiersTried :
        /\ TierReturned(t) # {}
        /\ \A u \in TiersTried : TierRank(u) < TierRank(t) => TierReturned(u) = {}}

\* C9: the tiers are tried in the order vector, phrase, stripped, per-keyword,
\* verbatim; no tier is invoked after a tier that returned a candidate; the
\* candidates given to the similarity judgment are exactly those of the first
\* tier that returned any (none when every tier came back empty).
C9_FallbackOrdering ==
    /\ \A a, b \in 1..Len(exTrace) :
          a < b => /\ TierRank(exTrace[a].tier) <= TierRank(exTrace[b].tier)
                   /\ (TierRank(exTrace[a].tier) < TierRank(exTrace[b].tier)
                          => TierReturned(exTrace[a].tier) = {})
    /\ Len(exTrace) > 0 => exTrace[1].tier = "vector"
    /\ IsSome(exJudged) =>
          /\ Len(exTrace) > 0
          /\ IsInjective(exJudged[1])
          /\ IF FirstNonEmptyTiers = {}
             THEN exJudged[1] = <<>> /\ "verbatim" \in TiersTried
             ELSE \A t \in FirstNonEmptyTiers :
                     /\ Cardinality(TierReturned(t)) <= MergedCap
                           => SeqRange(exJudged[1]) = TierReturned(t)
                     /\ SeqRange(exJudged[1]) \subseteq TierReturned(t)
                     /\ Len(exJudged[1]) = Min(MergedCap, Cardinality(TierReturned(t)))
                     /\ t # "keyword" => exJudged[1] = exTrace[Len(exTrace)].result

\* the per-keyword tier was the first to return candidates, after three empty
\* tiers, and its merged candidates were judged
C9_Witness ==
    /\ exPc = "returned"
    /\ FirstNonEmptyTiers = {"keyword"}
    /\ TiersTried = {"vector", "phrase", "stripped", "keyword"}
    /\ Len(exTrace) = 5
    /\ Len(exJudged[1]) = 2

-----------------------------------------------------------------------------
(* Properties of the reasoning loop (specification SpecLoop) *)

\* C10: performReasoningLoop ends after at least 1 and at most 3 iterations
\* whatever the oracle answers, and the iteration count it returns is the
\* number of thoughts collected.
C10_LoopBounds ==
    /\ [](pc = "reason" =>
            /\ loc.iteration \in 1..3
            /\ Len(loc.allThoughts) = loc.iteration - 1)
    /\ [](pc = "loop_returned" =>
            /\ loc.reasoningResult[1].iterations \in 1..3
            /\ loc.reasoningResult[1].iterations = Len(loc.reasoningResult[1].allThoughts)
            /\ loc.reasoningResult[1].allThoughts = loc.allThoughts)
    /\ <>(pc \in {"loop_returned", "loop_thrown"})

\* the loop returned after the third iteration, its confidence still below the threshold
C10_Witness ==
    /\ pc = "loop_returned"
    /\ loc.reasoningResult[1].iterations = 3
    /\ Len(loc.allThoughts) = 3
    /\ loc.finalConfidence < HighConfidence

\* the iteration the loop made last and what it returned
LastIteration == Len(loc.allThoughts)

LoopStopped == pc = "loop_returned"

LoopContinued == pc = "reason" /\ Len(loc.allThoughts) > 0

StopRule(n, result) ==
    IF n = 1 THEN ~result.needsMoreReasoning
    ELSE ~result.needsMoreReasoning \/ result.confidence >= 8

C12_ConfidenceBounds ==
    /\ IsSome(loc.lastResult) =>
          loc.lastResult[1].confidence >= 0 /\ loc.lastResult[1].confidence <= 10
    /\ LoopStopped =>
          /\ loc.reasoningResult[1].finalConfidence >= 0
          /\ loc.reasoningResult[1].finalConfidence <= 10

-----------------------------------------------------------------------------
(* Properties of the status of a run (specification Spec) *)

StatusRank(status) ==
    CASE status = "pending" -> 0  [] status = "planning" -> 1
      [] status = "executing" -> 2  [] status = "completed" -> 3
      [] status = "error" -> 3

\* C13: the status only moves forward along pending, planning, executing, then
\* completed or error: it never returns to an earlier status, nothing follows
\* completed or error, and a run never holds both.
C13_StatusMonotonic ==
    /\ statuses[1] = "pending"
    /\ state.status = statuses[Len(statuses)]
    /\ \A a, b \in 1..Len(statuses) :
          a < b => StatusRank(statuses[a]) < StatusRank(statuses[b])

\* a run that failed in the Answer Generator after it went through every status
C13_Witness ==
    /\ statuses = <<"pending", "planning", "executing", "error">>
    /\ state.error = Some("gen_stream")
    /\ outcome = "returned"

\* C14: the status completed is entered only from executing, on the reuse
\* short-circuit as on the full reasoning path.
C14_CompletedFromExecuting ==
    state.status = "completed" =>
        /\ Len(statuses) > 1
        /\ statuses[Len(statuses) - 1] = "executing"

-----------------------------------------------------------------------------
(* Properties of the reuse decision and of the answer stream (Spec) *)

ReuseFired == TruthyText(loc.answerToReuse)

\* C15: a run that takes the reuse short-circuit never invokes the Memory
\* Retriever: the reuse-candidate check comes before memory retrieval.
C15_ReuseBeforeRetrieval ==
    ReuseFired => invoked["retriever"] = 0

\* pronoun resolution succeeded: resolved = true with at least one entity
ResolutionSucceeded(dd) ==
    /\ IsSome(dd.pronounResolution)
    /\ dd.pronounResolution[1].resolved
    /\ Len(dd.pronounResolution[1].resolvedEntities) >= 1

SubstitutedQuestion(q, dd) == ReplaceAll(q, dd.pronounResolution[1].resolvedEntities)

\* the run passed validation and went on without any failure up to the point
\* where the second existence check is decided
PastRecheckDecision ==
    /\ IsSome(state.memoryDecision)
    /\ state.error = None
    /\ ~streamClosed

\* C16: in a run that passes validation the Existence Checker is invoked a
\* second time if and only if pronoun resolution succeeded and the substituted
\* text differs from the question; otherwise exactly once; never more than twice.
C16_RecheckIffResolvedDiffers ==
    PastRecheckDecision =>
        LET dd == loc.dependencyDecision[1]
            expected == /\ ResolutionSucceeded(dd)
                        /\ SubstitutedQuestion(state.question, dd) # state.question
        IN  /\ invoked["existence"] = 1
            /\ invoked["recheck"] = IF expected THEN 1 ELSE 0

ResolvedMatch ==
    /\ IsSome(loc.resolvedQuestionMemory)
    /\ loc.resolvedQuestionMemory[1].similarQuestionExists
    /\ TruthyText(loc.resolvedQuestionMemory[1].existingAnswer)

\* C17: when both reuse candidates are available the answer reused is the
\* original-question match's; the resolved-question match's answer is reused
\* only when the original-question condition does not hold.
C17_ReusePriority ==
    IsSome(loc.answerToReuse) =>
        IF ReuseConditions
        THEN loc.answerToReuse = loc.existenceCheck[1].existingAnswer
        ELSE ResolvedMatch
             /\ loc.answerToReuse = loc.resolvedQuestionMemory[1].existingAnswer

\* both candidates were available with different answers
C17_Witness ==
    /\ ReuseConditions
    /\ ResolvedMatch
    /\ loc.existenceCheck[1].existingAnswer = Some(AX)
    /\ loc.resolvedQuestionMemory[1].existingAnswer = Some(A1)
    /\ loc.answerToReuse = Some(AX)

AnswerChunkEvents == SelectSeq(events, LAMBDA e : e.type = "answer_chunk")

ChunkTexts == [k \in 1..Len(AnswerChunkEvents) |-> AnswerChunkEvents[k].chunk]

\* C18: for a run that reaches completed, on the reuse path and on the
\* generation path, the concatenation in emission order of the texts of its
\* answer_chunk events equals state.answer.
C18_ChunksMakeAnswer ==
    (state.status = "completed" /\ onStream) =>
        /\ IsSome(state.answer)
        /\ Join(ChunkTexts) = state.answer[1]

\* a stored answer of 12 characters went out as a chunk of 10 and one of 2
C18_Witness ==
    /\ state.status = "completed"
    /\ ReuseFired
    /\ state.answer = Some(A1)
    /\ ChunkTexts = <<SubSeq(A1, 1, 10), SubSeq(A1, 11, 12)>>

\* ---------------------------------------------------------------------
\* Several invocations of runAgent in flight at once.  runAgent is async:
\* between two awaits one invocation runs alone, so an emitReasoningStep
\* call (synchronous) is one step, and the calls of different invocations
\* interleave in any order.
\* ---------------------------------------------------------------------

MaxRuns == 2

ConRuns == 1..MaxRuns

\* the reasoning steps a run without memory emits, in program order
\* (orchestrator.ts lines 99, 109, 119, 137, 148, 213, 402, 427, 437)
ConKinds ==
    << "planning", "planning", "memory_existence_check", "memory_existence_check",
       "memory_dependency_decision", "memory_dependency_decision",
       "reasoning", "reasoning", "generating_answer" >>

ConQuestion(r) == <<"question", r>>

\* every invocation working on one and the same object
SharedStateRef(heap) == 1

\* `const state = createAgentRunState(userId, question)`: the object literal
\* is a new object at every call
NewStateRef(heap) == Len(heap) + 1

ConStart(r) ==
    /\ conPc[r] = 0
    /\ LET ref == NewStateRef(conHeap) IN
        /\ conRef' = [conRef EXCEPT ![r] = ref]
        /\ conHeap' = IF ref > Len(conHeap)
                        THEN Append(conHeap, createAgentRunState(RunUser, ConQuestion(r)))
                        ELSE conHeap
    /\ conPc' = [conPc EXCEPT ![r] = 1]
    /\ UNCHANGED <<conEvents, runVars, valVars, exVars, dbVars, rsVars, clVars, auVars, twVars>>

ConEmit(r) ==
    /\ conPc[r] \in 1..Len(ConKinds)
    /\ LET c == [st |-> conHeap[conRef[r]], evs |-> conEvents[r], thrown |-> None]
           d == emitReasoningStep(c, ConKinds[conPc[r]])
       IN  /\ conHeap' = [conHeap EXCEPT ![conRef[r]] = d.st]
           /\ conEvents' = [conEvents EXCEPT ![r] = d.evs]
    /\ conPc' = [conPc EXCEPT ![r] = @ + 1]
    /\ UNCHANGED <<conRef, runVars, valVars, exVars, dbVars, rsVars, clVars, auVars, twVars>>

ConInit ==
    /\ caller = "none"
    /\ onStream = TRUE
    /\ onAnswerChunk = FALSE
    /\ pc = "parked"
    /\ state = createAgentRunState(RunUser, <<>>)
    /\ statuses = <<"pending">>
    /\ loc = NoLocals
    /\ events = <<>>
    /\ chunksOut = <<>>
    /\ invoked = [s \in Stages |-> 0]
    /\ outcome = "pending"
    /\ streamClosed = FALSE
    /\ chunkCbBroken = FALSE
    /\ store = InitialStore
    /\ ValParked
    /\ ExParked
    /\ DbParked
    /\ TwParked
    /\ AuParked
    /\ ClParked
    /\ RsParked
    /\ conHeap = <<>>
    /\ conRef = [r \in ConRuns |-> 0]
    /\ conPc = [r \in ConRuns |-> 0]
    /\ conEvents = [r \in ConRuns |-> <<>>]

ConNext == \E r \in ConRuns : ConStart(r) \/ ConEmit(r)

SpecRuns == ConInit /\ [][ConNext]_vars

\* ---------------------------------------------------------------------
\* C19
\* ---------------------------------------------------------------------

ConStarted(r) == conPc[r] > 0

ConSteps(r) == conHeap[conRef[r]].reasoningSteps

ConEmitted(r) == conPc[r] - 1

IsPrefix(xs, ys) == Len(xs) <= Len(ys) /\ xs = SubSeq(ys, 1, Len(xs))

ConOwnSteps ==
    \A r \in ConRuns : ConStarted(r) =>
        /\ Len(ConSteps(r)) = ConEmitted(r)
        /\ \A k \in 1..Len(ConSteps(r)) :
              ConSteps(r)[k] = [step |-> k, type |-> ConKinds[k]]
        /\ conEvents[r] = [k \in 1..Len(ConSteps(r)) |->
              [type |-> "reasoning_step", step |-> ConSteps(r)[k].step,
               kind |-> ConSteps(r)[k].type]]
        /\ \A q \in ConRuns : (q # r /\ ConStarted(q)) => conRef[q] # conRef[r]

ConStepsOnlyAppended ==
    \A r \in ConRuns : ConStarted(r) =>
        /\ IsPrefix(ConSteps(r), conHeap'[conRef'[r]].reasoningSteps)
        /\ IsPrefix(conEvents[r], conEvents'[r])

\* C19: with several runs in flight under any interleaving, each run has a
\* RunState of its own: its reasoningSteps hold exactly the steps the run
\* emitted, numbered 1, 2, ..., n in append order, no step is ever removed
\* or changed, and the run's reasoning_step events carry the same steps in
\* the same order.
C19_RunsOwnTheirSteps == []ConOwnSteps /\ [][ConStepsOnlyAppended]_vars

\* two runs interleaved, each part of the way through its steps
C19_Witness ==
    /\ MaxRuns >= 2
    /\ conPc[1] = 4
    /\ conPc[2] = 7
    /\ Len(ConSteps(1)) = 3
    /\ Len(ConSteps(2)) = 6
    /\ Len(conEvents[1]) = 3
    /\ Len(conEvents[2]) = 6

\* ---------------------------------------------------------------------
\* The table agent_runs and the queries on it (db/queries/agent-runs.ts,
\* db/queries/vector-search.ts).  A question is a sequence of words; ILIKE
\* '%query%' is containment of the query's words, in order and adjacent,
\* whatever their case.  Similarities are in hundredths.  A row's answer
\* plays no part in any WHERE or ORDER BY and is left out.
\* ---------------------------------------------------------------------

MaxRows == 3

RecentLimit == 10

ExistenceThreshold == 75

RetrievalThreshold == 60

DbQuestions == { <<"who", "is", "tim", "cook">>, <<"tim", "cook">>, <<"what", "is", "It">> }

DbQueries == { <<"tim", "cook">>, <<"it">>, <<"who", "is", "tim", "cook">> }

Row(id, u, q, e) ==
    [id |-> id, userId |-> u, question |-> q, createdAt |-> id, embedded |-> e]

LowerAll(q) == [k \in 1..Len(q) |-> Lower(q[k])]

\* agentRuns.question ILIKE '%query%'
ILike(text, query) ==
    \E i \in 0..(Len(text) - Len(query)) :
        SubSeq(LowerAll(text), i + 1, i + Len(query)) = LowerAll(query)

\* 1 - (questionEmbedding <=> queryEmbedding), for the embeddings of two texts
Similarity(text, query) ==
    IF LowerAll(text) = LowerAll(query) THEN 100
    ELSE IF SeqRange(LowerAll(text)) \cap SeqRange(LowerAll(query)) # {} THEN 80
    ELSE 30

\* ORDER BY key LIMIT limit: every list the database may return for the
\* rows S, key giving each row's sort key; rows of equal key come in either
\* order
TopBy(S, key, limit) ==
    LET n == Min(limit, Cardinality(S)) IN
    { xs \in [1..n -> S] :
        /\ IsInjective(xs)
        /\ \A a, b \in 1..n : a < b => key[xs[a]] <= key[xs[b]]
        /\ \A x \in S \ SeqRange(xs) : \A k \in 1..n : key[xs[k]] <= key[x] }

NewestFirstKey(S) == [r \in S |-> 0 - r.createdAt]

MemoryRow(r) ==
    [runId |-> r.id, question |-> r.question, createdAt |-> r.createdAt,
     relevanceScore |-> 50]

\* the text search with the condition on the user left out
searchMemoryAnyUser(rows, u, query, limit) ==
    LET matching == {r \in rows : ILike(r.question, query)}
    IN  { [k \in 1..Len(xs) |-> MemoryRow(xs[k])]
          : xs \in TopBy(matching, NewestFirstKey(matching), limit) }

searchMemory(rows, u, query, limit) ==
    LET matching == {r \in rows : r.userId = u /\ ILike(r.question, query)}
    IN  { [k \in 1..Len(xs) |-> MemoryRow(xs[k])]
          : xs \in TopBy(matching, NewestFirstKey(matching), limit) }

getRecentQuestionsForUser(rows, u, limit) ==
    LET owned == {r \in rows : r.userId = u}
    IN  { [k \in 1..Len(xs) |-> [question |-> xs[k].question, createdAt |-> xs[k].createdAt]]
          : xs \in TopBy(owned, NewestFirstKey(owned), limit) }

\* the limit applies to the rows nearest the query, the threshold to what
\* the limit left
searchByVector(rows, u, query, limit, similarityThreshold) ==
    LET searched == {r \in rows : r.userId = u /\ r.embedded}
        distance == [r \in searched |-> 100 - Similarity(r.question, query)]
        Kept(xs) == SelectSeq(xs, LAMBDA r : 100 - distance[r] >= similarityThreshold)
        Result(xs) == [k \in 1..Len(xs) |->
                          [id |-> xs[k].id, question |-> xs[k].question,
                           createdAt |-> xs[k].createdAt,
                           similarity |-> 100 - distance[xs[k]]]]
    IN  { Result(Kept(xs)) : xs \in TopBy(searched, distance, limit) }

\* rows stored before embeddings were introduced have none
DbInitialRows == { Row(1, "u1", <<"tim", "cook">>, FALSE) }

DbWrite(kind, u, id) == [kind |-> kind, userId |-> u, id |-> id]

insertAgentRun(u, q) ==
    /\ dbNext <= MaxRows
    /\ dbRows' = dbRows \cup {Row(dbNext, u, q, TRUE)}
    /\ dbNext' = dbNext + 1
    /\ dbOp' = DbWrite("insert", u, dbNext)
    /\ UNCHANGED <<runVars, valVars, exVars, conVars, rsVars, clVars, auVars, twVars>>

deleteAgentRunForUser(id, u) ==
    /\ dbRows' = {r \in dbRows : ~(r.id = id /\ r.userId = u)}
    /\ dbOp' = DbWrite("delete", u, id)
    /\ UNCHANGED <<dbNext, runVars, valVars, exVars, conVars, rsVars, clVars, auVars, twVars>>

deleteAllAgentRunsForUser(u) ==
    /\ dbRows' = {r \in dbRows : r.userId # u}
    /\ dbOp' = DbWrite("deleteAll", u, 0)
    /\ UNCHANGED <<dbNext, runVars, valVars, exVars, conVars, rsVars, clVars, auVars, twVars>>

DbInit ==
    /\ RunParked
    /\ ValParked
    /\ ExParked
    /\ ConParked
    /\ dbRows = DbInitialRows
    /\ dbNext = 2
    /\ dbOp = NoWrite
    /\ TwParked
    /\ AuParked
    /\ ClParked
    /\ RsParked

DbNext ==
    \/ \E u \in Users, q \in DbQuestions : insertAgentRun(u, q)
    \/ \E u \in Users, id \in 1..(dbNext - 1) : deleteAgentRunForUser(id, u)
    \/ \E u \in Users : deleteAllAgentRunsForUser(u)

SpecStore == DbInit /\ [][DbNext]_vars

\* ---------------------------------------------------------------------
\* C20
\* ---------------------------------------------------------------------

\* every read a run makes of the store for user u: the text search of the
\* existence check and of the retrieval, the vector search of both, and the
\* recent questions of the dependency decision
DbReads(rows, u) ==
    [q \in DbQueries |->
        << searchMemory(rows, u, q, PhraseLimit),
           searchMemory(rows, u, q, KeywordLimit),
           searchByVector(rows, u, q, VectorLimit, ExistenceThreshold),
           searchByVector(rows, u, q, VectorLimit, RetrievalThreshold),
           getRecentQuestionsForUser(rows, u, RecentLimit) >>]

DbReadsKept ==
    \A a \in Users : dbOp'.userId # a => DbReads(dbRows', a) = DbReads(dbRows, a)

DbDeletesOwn ==
    dbOp'.kind \in {"delete", "deleteAll"} =>
        \A r \in dbRows \ dbRows' : r.userId = dbOp'.userId

WellFormedIteration(parsed) ==
    /\ parsed.thoughts # Undefined
    /\ parsed.needsMoreReasoning # None
    /\ parsed.confidence # None
    /\ parsed.confidence # Some(NaN)

IterationAccepted == IsSome(loc.parsed) /\ IsSome(loc.lastResult)

\* C21: a structured oracle call validates the JSON it gets against the
\* expected shape: a reasoning iteration whose JSON lacks a field or has one
\* of the wrong type fails, and no default stands in for the field.
C21_MalformedJsonRejected ==
    IterationAccepted => WellFormedIteration(loc.parsed[1])

Clamped(c) == IF c < 0 THEN 0 ELSE IF c > OneTenths THEN OneTenths ELSE c

\* C30: an iteration returns the confidence the oracle reported, clamped to
\* [0, 1] (0 stays 0), and the default 0.5 only when the oracle reported none.
C30_ConfidenceClamped ==
    IterationAccepted =>
        loc.lastResult[1].confidence =
            IF loc.parsed[1].confidence = None THEN DefaultConfidence
            ELSE Clamped(loc.parsed[1].confidence[1])

\* ---------------------------------------------------------------------
\* C23
\* ---------------------------------------------------------------------

ReuseSimilarity == 85

HighSimilarityMatch ==
    /\ IsSome(loc.existenceCheck)
    /\ loc.existenceCheck[1].similarQuestionExists
    /\ TruthyText(loc.existenceCheck[1].existingAnswer)
    /\ IsSome(loc.existenceCheck[1].vectorSimilarityScore)
    /\ loc.existenceCheck[1].vectorSimilarityScore[1] >= ReuseSimilarity

\* C23: a run whose existence check reports a matched question with an
\* answer and a vector similarity of at least 0.85 reuses that answer and
\* generates none, whatever the dependency decision says.
C23_HighSimilarityReuse ==
    (HighSimilarityMatch /\ state.status = "completed") =>
        /\ state.answer = loc.existenceCheck[1].existingAnswer
        /\ invoked["generator"] = 0

\* ---------------------------------------------------------------------
\* C27
\* ---------------------------------------------------------------------

EventPhase(type) ==
    CASE type = "reasoning_step" -> 1
      [] type = "answer_chunk"   -> 2
      [] type \in {"complete", "error"} -> 3

\* C27: the events of a run are reasoning steps, then answer chunks, then at
\* most one terminal event (complete or error): no reasoning step follows an
\* answer chunk, complete and error never both occur, and nothing follows a
\* terminal event.
C27_EventShape ==
    /\ \A a, b \in 1..Len(events) :
          a < b => EventPhase(events[a].type) <= EventPhase(events[b].type)
    /\ CountEvents("complete") + CountEvents("error") <= 1

\* the endpoint delivered steps, chunks and the complete event
C27_Witness ==
    /\ caller = "POST"
    /\ pc = "done"
    /\ CountEvents("reasoning_step") >= 2
    /\ CountEvents("answer_chunk") >= 2
    /\ events[Len(events)].type = "complete"

\* a run that failed while the answer was streaming: chunks, then the error
C27_WitnessError ==
    /\ pc = "done"
    /\ CountEvents("answer_chunk") >= 1
    /\ events[Len(events)].type = "error"

\* ---------------------------------------------------------------------
\* C28
\* ---------------------------------------------------------------------

StoreWrittenOnlyOnCompletion ==
    store' # store =>
        /\ outcome = "returned"
        /\ state.status = "completed"
        /\ store = InitialStore
        /\ \E run \in store' : store' = store \cup {run}
        /\ state' = state

\* C28: the store is written only after runAgent has returned with status
\* completed, and once at most: no step of runAgent inserts or deletes a
\* run, and a run that ended in error is never inserted.
C28_PersistOnlyCompleted ==
    /\ [][StoreWrittenOnlyOnCompletion]_vars
    /\ [](state.status = "error" => store = InitialStore)

\* the endpoint has stored the completed run
C28_Witness ==
    /\ caller = "POST"
    /\ pc = "done"
    /\ state.status = "completed"
    /\ store # InitialStore
    /\ Cardinality(store) = Cardinality(InitialStore) + 1

\* ---------------------------------------------------------------------
\* C29
\* ---------------------------------------------------------------------

\* C29: at every point of a run no two entries of state.retrievedMemories
\* have the same runId, also when the match of the original question, the
\* match of the resolved question and the Memory Retriever return one run.
C29_NoDuplicateMemories ==
    \A a, b \in 1..Len(state.retrievedMemories) :
        a # b => state.retrievedMemories[a].runId # state.retrievedMemories[b].runId

\* ---------------------------------------------------------------------
\* The building of the resolved question alone (orchestrator.ts lines
\* 187-193), for any question and any list of resolved entities the
\* dependency decision may carry.
\* ---------------------------------------------------------------------

RsQuestions == { <<"how", "big", "is", "that">>,
                 <<"how", "big", "is", "It">>,
                 <<"is", "he", "in", "it">>,
                 <<"what", "is", "that", "to", "him">> }

RsEntity(pronoun, resolvedTo) ==
    [pronoun |-> pronoun, resolvedTo |-> resolvedTo, confidence |-> 9]

\* what the oracle may resolve a reference to: a name, or a phrase that is
\* itself a reference
RsEntityPool == { RsEntity("it", "yosemite"), RsEntity("that", "it"),
                  RsEntity("he", "tim"), RsEntity("him", "he") }

MaxEntities == 2

RsEntityLists ==
    {es \in UNION {[1..n -> RsEntityPool] : n \in 1..MaxEntities} : IsInjective(es)}

RsInit ==
    /\ RunParked
    /\ ValParked
    /\ ExParked
    /\ ConParked
    /\ DbParked
    /\ TwParked
    /\ AuParked
    /\ ClParked
    /\ rsQuestion \in RsQuestions
    /\ rsEntities \in RsEntityLists
    /\ rsResolved = None

BuildResolvedQuestion ==
    /\ rsResolved = None
    /\ rsResolved' = Some(ReplaceAll(rsQuestion, rsEntities))
    /\ UNCHANGED <<rsQuestion, rsEntities, runVars, valVars, exVars, conVars, dbVars, clVars, auVars, twVars>>

SpecResolve == RsInit /\ [][BuildResolvedQuestion]_vars

\* ---------------------------------------------------------------------
\* C26
\* ---------------------------------------------------------------------

\* every word of the original question that is a resolved pronoun replaced
\* by what it resolves to, every other word kept
ReplacedAtOnce(q, es) ==
    [i \in 1..Len(q) |->
        IF \E k \in 1..Len(es) : Lower(es[k].pronoun) = Lower(q[i])
        THEN LET k == CHOOSE k \in 1..Len(es) :
                        /\ Lower(es[k].pronoun) = Lower(q[i])
                        /\ \A j \in 1..(k - 1) : Lower(es[j].pronoun) # Lower(q[i])
             IN  es[k].resolvedTo
        ELSE q[i]]

Reversed(es) == [k \in 1..Len(es) |-> es[Len(es) + 1 - k]]

\* C26: the resolved question is the original question with exactly the
\* whole-word occurrences of each entity's pronoun replaced by its
\* resolvedTo; what one substitution put in is not rewritten by another, so
\* the order of resolvedEntities does not matter.
C26_SubstitutionOnOriginal ==
    IsSome(rsResolved) =>
        /\ rsResolved[1] = ReplacedAtOnce(rsQuestion, rsEntities)
        /\ rsResolved[1] = ReplaceAll(rsQuestion, Reversed(rsEntities))

\* ---------------------------------------------------------------------
\* The client that reads the event stream (components/agent/agent-panel.tsx,
\* handleSubmitInternal, lines 52-129).  The response body is a sequence of
\* events; the reader hands them over one at a time and then reports done,
\* or fails.
\* ---------------------------------------------------------------------

MaxEvents == 3

ClEvents ==
    { [type |-> "reasoning_step", step |-> 1, kind |-> "planning"],
      AnswerChunkEvent(<<31, 32>>),
      CompleteEvent("new"),
      ErrorEvent("gen_stream") }

\* any body a server or the network in between may deliver
ClStreams == UNION {[1..n -> ClEvents] : n \in 0..MaxEvents}

\* lines 101-116: the switch on the event's type
ClOnEvent(ev) ==
    /\ clReasoningSteps' = IF ev.type = "reasoning_step"
                             THEN Append(clReasoningSteps, [step |-> ev.step, type |-> ev.kind])
                             ELSE clReasoningSteps
    /\ clAnswer' = IF ev.type = "answer_chunk" THEN clAnswer \o ev.chunk ELSE clAnswer
    /\ clError' = IF ev.type = "error" THEN Some(ev.message) ELSE clError
    /\ clIsStreaming' = IF ev.type \in {"complete", "error"} THEN FALSE ELSE clIsStreaming

\* lines 53-69: the state is reset and the request sent
ClSubmit ==
    /\ clPc = "idle"
    /\ clIsSubmitting' = TRUE
    /\ clReasoningSteps' = <<>>
    /\ clAnswer' = <<>>
    /\ clError' = None
    /\ clIsStreaming' = TRUE
    /\ clPc' = "fetching"
    /\ clSeen' = <<>>
    /\ UNCHANGED <<clStream, runVars, valVars, exVars, conVars, dbVars, rsVars, auVars, twVars>>

\* lines 71-83: the response arrives with a body to read
ClResponseOk ==
    /\ clPc = "fetching"
    /\ clStream' \in ClStreams
    /\ clPc' = "reading"
    /\ UNCHANGED <<clSeen, clReasoningSteps, clAnswer, clError, clIsStreaming,
                   clIsSubmitting, runVars, valVars, exVars, conVars, dbVars, rsVars, auVars, twVars>>

\* lines 71-80 and 123-128: fetch rejects, the response is not ok or has no body
ClResponseFails ==
    /\ clPc = "fetching"
    /\ clError' = Some("Failed to start agent")
    /\ clIsStreaming' = FALSE
    /\ clIsSubmitting' = FALSE
    /\ clPc' = "ended"
    /\ UNCHANGED <<clStream, clSeen, clReasoningSteps, clAnswer,
                   runVars, valVars, exVars, conVars, dbVars, rsVars, auVars, twVars>>

\* lines 86-121: read() gives the next event
ClReadEvent ==
    /\ clPc = "reading"
    /\ clStream # <<>>
    /\ ClOnEvent(Head(clStream))
    /\ clSeen' = Append(clSeen, Head(clStream).type)
    /\ clStream' = Tail(clStream)
    /\ UNCHANGED <<clPc, clIsSubmitting, runVars, valVars, exVars, conVars, dbVars, rsVars, auVars, twVars>>

\* lines 86-87 and 126-128: read() reports done, the loop is left
ClReadDone ==
    /\ clPc = "reading"
    /\ clStream = <<>>
    /\ clIsSubmitting' = FALSE
    /\ clPc' = "ended"
    /\ UNCHANGED <<clStream, clSeen, clReasoningSteps, clAnswer, clError, clIsStreaming,
                   runVars, valVars, exVars, conVars, dbVars, rsVars, auVars, twVars>>

\* lines 86 and 123-128: read() rejects (the connection broke)
ClReadFails ==
    /\ clPc = "reading"
    /\ clError' = Some("network error")
    /\ clIsStreaming' = FALSE
    /\ clIsSubmitting' = FALSE
    /\ clPc' = "ended"
    /\ UNCHANGED <<clStream, clSeen, clReasoningSteps, clAnswer,
                   runVars, valVars, exVars, conVars, dbVars, rsVars, auVars, twVars>>

ClInit ==
    /\ RunParked
    /\ ValParked
    /\ ExParked
    /\ ConParked
    /\ DbParked
    /\ TwParked
    /\ AuParked
    /\ RsParked
    /\ clPc = "idle"
    /\ clStream = <<>>
    /\ clSeen = <<>>
    /\ clReasoningSteps = <<>>
    /\ clAnswer = <<>>
    /\ clError = None
    /\ clIsStreaming = FALSE
    /\ clIsSubmitting = FALSE

ClNext ==
    \/ ClSubmit
    \/ ClResponseOk
    \/ ClResponseFails
    \/ ClReadEvent
    \/ ClReadDone
    \/ ClReadFails

SpecClient == ClInit /\ [][ClNext]_vars

\* ---------------------------------------------------------------------
\* C24
\* ---------------------------------------------------------------------

ClSawComplete == \E k \in 1..Len(clSeen) : clSeen[k] = "complete"

\* C24: when the stream has ended and the client received no complete event,
\* however many steps or chunks came before, the client is in a failure
\* state: an error is recorded and the answer is no longer shown as streaming.
C24_NoCompleteIsFailure ==
    (clPc = "ended" /\ ~ClSawComplete) => (IsSome(clError) /\ ~clIsStreaming)

\* ---------------------------------------------------------------------
\* Session password protection: the server actions (actions/session-auth.ts),
\* the panel that asks for the password (agent-panel.tsx lines 38-50 and
\* 131-157) and the endpoint the panel posts to (POST, part_005 lines
\* 82-133), for one logged-in session with protection enabled.
\* ---------------------------------------------------------------------

RequireSessionPassword == TRUE

SessionPassword == "secret"

Passwords == {"secret", "guess"}

MaxSubmits == 3

\* session-auth.ts lines 84-112, for a logged-in session whose flag is marked;
\* failed: reading the session or its row threw
checkSessionAuth(marked, failed) ==
    IF ~RequireSessionPassword
    THEN [requiresPassword |-> FALSE, isAuthenticated |-> TRUE]
    ELSE IF failed
    THEN [requiresPassword |-> TRUE, isAuthenticated |-> FALSE]
    ELSE [requiresPassword |-> TRUE, isAuthenticated |-> marked]

\* session-auth.ts lines 41-53: whether the password lets the flag be set
PasswordAccepted(password) ==
    RequireSessionPassword /\ password = SessionPassword

\* POST lines 82-133 and 127: the handler wants a logged-in user and a valid
\* body and then calls runAgent; it does not read the session's flag
PostStartsRun(marked) == TRUE

\* handleSubmitInternal lines 52-69: the request is sent
AuSubmitInternal ==
    auStarted' = IF PostStartsRun(auMarked) THEN Append(auStarted, auMarked) ELSE auStarted

\* the effect's call of checkSessionAuth runs on the server (lines 45-46)
AuCheckOnServer ==
    /\ auCheck.at = "called"
    /\ \E failed \in BOOLEAN :
        auCheck' = [at |-> "answered", result |-> Some(checkSessionAuth(auMarked, failed))]
    /\ UNCHANGED <<auMarked, auRequiresPassword, auIsAuthenticated, auShowDialog,
                   auPendingQuestion, auStarted, auTried,
                   runVars, valVars, exVars, conVars, dbVars, rsVars, clVars, twVars>>

\* lines 46-49: its result reaches the panel
AuCheckDone ==
    /\ auCheck.at = "answered"
    /\ auRequiresPassword' = auCheck.result[1].requiresPassword
    /\ auIsAuthenticated' = auCheck.result[1].isAuthenticated
    /\ auCheck' = [at |-> "done", result |-> auCheck.result]
    /\ UNCHANGED <<auMarked, auShowDialog, auPendingQuestion, auStarted, auTried,
                   runVars, valVars, exVars, conVars, dbVars, rsVars, clVars, twVars>>

\* handleSubmit lines 147-157: the user submits a question
AuSubmit ==
    /\ Len(auStarted) < MaxSubmits
    /\ ~auShowDialog
    /\ IF auRequiresPassword /\ ~auIsAuthenticated
       THEN /\ auPendingQuestion' = Some("q")
            /\ auShowDialog' = TRUE
            /\ UNCHANGED auStarted
       ELSE /\ AuSubmitInternal
            /\ UNCHANGED <<auPendingQuestion, auShowDialog, twVars>>
    /\ UNCHANGED <<auMarked, auCheck, auRequiresPassword, auIsAuthenticated, auTried,
                   runVars, valVars, exVars, conVars, dbVars, rsVars, clVars, twVars>>

\* the dialog calls verifySessionPassword (session-auth.ts lines 36-75); on
\* success handlePasswordSuccess runs (agent-panel.tsx lines 131-140)
AuVerify ==
    /\ auShowDialog
    /\ \E password \in Passwords, updated \in BOOLEAN :
        /\ auTried' = Some(password)
        /\ IF PasswordAccepted(password) /\ updated
           THEN /\ auMarked' = TRUE
                /\ auIsAuthenticated' = TRUE
                /\ auShowDialog' = FALSE
                /\ auPendingQuestion' = None
                /\ IF IsSome(auPendingQuestion) /\ PostStartsRun(TRUE)
                   THEN auStarted' = Append(auStarted, TRUE)
                   ELSE UNCHANGED auStarted
           ELSE UNCHANGED <<auMarked, auIsAuthenticated, auShowDialog,
                            auPendingQuestion, auStarted, twVars>>
    /\ UNCHANGED <<auCheck, auRequiresPassword,
                   runVars, valVars, exVars, conVars, dbVars, rsVars, clVars, twVars>>

\* handlePasswordCancel lines 142-145
AuCancel ==
    /\ auShowDialog
    /\ auShowDialog' = FALSE
    /\ auPendingQuestion' = None
    /\ UNCHANGED <<auMarked, auCheck, auRequiresPassword, auIsAuthenticated, auStarted,
                   auTried, runVars, valVars, exVars, conVars, dbVars, rsVars, clVars, twVars>>

\* the page is loaded again: the panel mounts with the useState defaults
\* (lines 39-42) and its effect calls checkSessionAuth; a result still on
\* its way to the old panel is dropped
AuReload ==
    /\ auCheck.at = "done" \/ auShowDialog
    /\ auCheck' = [at |-> "called", result |-> None]
    /\ auRequiresPassword' = FALSE
    /\ auIsAuthenticated' = TRUE
    /\ auShowDialog' = FALSE
    /\ auPendingQuestion' = None
    /\ UNCHANGED <<auMarked, auStarted, auTried,
                   runVars, valVars, exVars, conVars, dbVars, rsVars, clVars, twVars>>

\* the panel has mounted: its state is the useState defaults (lines 39-42)
\* and the effect has called checkSessionAuth; the session may have been
\* marked on an earlier visit
AuInit ==
    /\ RunParked
    /\ ValParked
    /\ ExParked
    /\ ConParked
    /\ DbParked
    /\ TwParked
    /\ RsParked
    /\ ClParked
    /\ auMarked \in BOOLEAN
    /\ auCheck = [at |-> "called", result |-> None]
    /\ auRequiresPassword = FALSE
    /\ auIsAuthenticated = TRUE
    /\ auShowDialog = FALSE
    /\ auPendingQuestion = None
    /\ auStarted = <<>>
    /\ auTried = None

AuNext ==
    \/ AuCheckOnServer
    \/ AuCheckDone
    \/ AuSubmit
    \/ AuVerify
    \/ AuCancel
    \/ AuReload

SpecAuth == AuInit /\ [][AuNext]_vars

\* ---------------------------------------------------------------------
\* C25
\* ---------------------------------------------------------------------

RunsOnlyWhenMarked == \A k \in 1..Len(auStarted) : auStarted[k]

MarkedOnlyByPassword ==
    (~auMarked /\ auMarked') => auTried' = Some(SessionPassword)

\* C25: with protection enabled no run is started for a session that is not
\* marked password-authenticated, in whatever order the mount-time check,
\* the submission and the verification happen; and the session is marked
\* only by a verification whose password equals SESSION_PASSWORD.
C25_PasswordGate == []RunsOnlyWhenMarked /\ [][MarkedOnlyByPassword]_vars

\* ---------------------------------------------------------------------
\* One question submitted twice by one user: the first run completes and
\* the endpoint persists it (POST lines 135-146, insertAgentRun), then the
\* second run's checkMemoryExistence (part_012 lines 55-221) searches the
\* table and asks the oracle for its judgment.
\* ---------------------------------------------------------------------

\* what the table may hold before the first submission
TwHistoryRows == { Row(1, "u1", <<"who", "is", "tim", "cook">>, FALSE),
                   Row(2, "u2", <<"who", "invented", "python">>, TRUE),
                   Row(3, "u1", <<"who", "is", "he">>, TRUE) }

\* the search phrase the oracle may generate (lines 24-53)
TwSearchQueries == { <<"tim", "cook">>, <<"python">> }

\* searchMemory's rows for a query; createdAt differs from row to row, so the
\* order is fixed
TextSearch(rows, u, query, limit) == CHOOSE xs \in searchMemory(rows, u, query, limit) : TRUE

\* lines 66-72
FromVector(xs) ==
    [k \in 1..Len(xs) |-> [runId |-> xs[k].id, question |-> xs[k].question,
                           createdAt |-> xs[k].createdAt,
                           relevanceScore |-> xs[k].similarity]]

\* lines 120-133
RECURSIVE KeywordMap(_, _, _, _)
KeywordMap(map, rows, u, words) ==
    IF words = <<>> THEN map
    ELSE KeywordMap(MergeInto(map, TextSearch(rows, u, <<words[1]>>, KeywordLimit)),
                    rows, u, Tail(words))

\* lines 74-149: the tiers after a vector search that found nothing
TextTiers(rows, u, q, searchQuery) ==
    LET phrase   == TextSearch(rows, u, searchQuery, PhraseLimit)
        stripped == IF phrase = <<>> /\ StrippedWords(q) # <<>>
                    THEN TextSearch(rows, u, StrippedWords(q), PhraseLimit)
                    ELSE phrase
        map      == IF stripped = <<>> THEN KeywordMap(<<>>, rows, u, Keywords(q)) ELSE <<>>
        keyword  == IF stripped = <<>> /\ map # <<>> THEN Merged(map) ELSE stripped
    IN  IF keyword = <<>> THEN TextSearch(rows, u, q, PhraseLimit) ELSE keyword

\* lines 60-149: every list of candidates the search may hand to the judgment
ExistenceCandidates(rows, u, q, searchQuery) ==
    { IF v # <<>> THEN FromVector(v) ELSE TextTiers(rows, u, q, searchQuery)
      : v \in searchByVector(rows, u, q, VectorLimit, ExistenceThreshold) }

\* the first run has completed and the endpoint has stored it
TwFirstRunPersisted ==
    /\ twPc = "first"
    /\ dbRows' = dbRows \cup {Row(dbNext, RunUser, twQuestion, TRUE)}
    /\ dbNext' = dbNext + 1
    /\ dbOp' = DbWrite("insert", RunUser, dbNext)
    /\ twPc' = "second"
    /\ UNCHANGED <<twQuestion, twCandidates, twResult,
                   runVars, valVars, exVars, conVars, rsVars, clVars, auVars>>

\* the second run's searches have gathered the candidates
TwSearched ==
    /\ twPc = "second"
    /\ \E searchQuery \in TwSearchQueries :
          \E cands \in ExistenceCandidates(dbRows, RunUser, twQuestion, searchQuery) :
              twCandidates' = Some(cands)
    /\ twPc' = "judging"
    /\ UNCHANGED <<twQuestion, twResult,
                   runVars, valVars, exVars, conVars, dbVars, rsVars, clVars, auVars>>

\* lines 155-220: the oracle's judgment, accepted by the schema
TwJudged ==
    /\ twPc = "judging"
    /\ \E ec \in ExistenceOutputs : twResult' = Some(ec)
    /\ twPc' = "judged"
    /\ UNCHANGED <<twQuestion, twCandidates,
                   runVars, valVars, exVars, conVars, dbVars, rsVars, clVars, auVars>>

\* an oracle or embedding call of the second run rejects
TwFails ==
    /\ twPc \in {"second", "judging"}
    /\ twPc' = "failed"
    /\ UNCHANGED <<twQuestion, twCandidates, twResult,
                   runVars, valVars, exVars, conVars, dbVars, rsVars, clVars, auVars>>

TwInit ==
    /\ RunParked
    /\ ValParked
    /\ ExParked
    /\ ConParked
    /\ RsParked
    /\ ClParked
    /\ AuParked
    /\ dbRows \in SUBSET TwHistoryRows
    /\ dbNext = 4
    /\ dbOp = NoWrite
    /\ twPc = "first"
    /\ twQuestion \in ExQuestions
    /\ twCandidates = None
    /\ twResult = None

TwNext ==
    \/ TwFirstRunPersisted
    \/ TwSearched
    \/ TwJudged
    \/ TwFails

SpecTwice == TwInit /\ [][TwNext]_vars

\* ---------------------------------------------------------------------
\* C22
\* ---------------------------------------------------------------------

IdenticalAmongCandidates ==
    \E k \in 1..Len(twCandidates[1]) : twCandidates[1][k].question = twQuestion

\* C22: a question submitted again by the same user after its run was
\* persisted, the history otherwise unchanged: the second run's existence
\* check reports similarQuestionExists = true, and the stored identical
\* question is among the candidates handed to the similarity judgment.
C22_IdempotentExistence ==
    twPc = "judged" =>
        /\ twResult[1].similarQuestionExists
        /\ IdenticalAmongCandidates

\* the part that the searches alone decide
CandidatesHoldIdentical ==
    IsSome(twCandidates) => IdenticalAmongCandidates

=============================================================================
